---------------------------- MODULE Spec2Model ----------------------------
(***************************************************************************)
(* A model of simplerig's durable orchestration core:                      *)
(*   events.py    - event log (EventWriter / EventReader), FileLock        *)
(*   runner.py    - RunState, StateReconstructor, StageMachine             *)
(*   scheduler.py - TaskGraph, ParallelScheduler                           *)
(* Every specification below shares the same variables; a specification    *)
(* that does not exercise a component leaves that component's variables at *)
(* their initial values.                                                   *)
(***************************************************************************)
EXTENDS Integers, Sequences, FiniteSets, TLC

VARIABLES
    log,        \* events.jsonl: the sequence of lines of the file
    wstate,     \* EventWriter object -> "none" | "live" | "closed"
    wseq,       \* EventWriter object -> its _seq counter
    wlock,      \* EventWriter object -> thread holding its threading.Lock, or NoThread
    tpc,        \* thread -> position inside EventWriter.write
    tw,         \* thread -> the EventWriter it is calling
    tev,        \* thread -> event.seq of the event it is writing
    rpc,        \* reconstruct call -> "idle" | "iter" | "done"
    rpos,       \* reconstruct call -> lines of the file its iterator has consumed
    rstate,     \* reconstruct call -> the RunState it is building
    rresult,    \* reconstruct call -> the RunState its last call returned
    files,      \* artifacts/: artifact name -> the bytes of the file
    store,      \* a caller of ArtifactStore: the ref it keeps and what verify said
    osname,     \* os.name of the build: "posix" | "nt"
    fd,         \* FileLock object (one per StageMachine) -> "none" | "open"
    flock,      \* the FileLock whose descriptor holds the lock on run.lock, or 0
    stages,     \* the stage list the machines are constructed with
    limits,     \* the runs, deviations, failed writes and inputs of a behaviour
    used,       \* how many of each have happened
    invs,       \* run() invocations started so far
    mach,       \* StageMachine object -> its fields and the locals of its run()
    plan,       \* what ParallelScheduler and its schedule() call are given
    graph,      \* TaskGraph.tasks: task id -> status, retry_count, dependencies
    sched       \* ParallelScheduler: _should_stop and the locals of schedule()

writerVars == <<wstate, wseq, wlock, tpc, tw, tev>>
replayVars == <<rpc, rpos, rstate, rresult>>
storeVars == <<files, store>>
lockVars == <<osname, fd, flock>>
machVars == <<stages, limits, used, invs, mach>>
schedVars == <<plan, graph, sched>>
vars == <<log, writerVars, replayVars, storeVars, lockVars, machVars, schedVars>>

\* What the steps of one component leave alone.
onlyWriter == <<replayVars, storeVars, lockVars, machVars, schedVars>>
onlyReplay == <<writerVars, storeVars, lockVars, machVars, schedVars>>
threadVars == <<wlock, tpc, tw, tev>>
onlyMachine == <<threadVars, replayVars, schedVars, store>>
onlySched == <<writerVars, replayVars, lockVars, machVars, store>>

(***************************************************************************)
(* Bounds of the model.                                                    *)
(***************************************************************************)
NumWriters == 2      \* EventWriter objects created on the run directory
NumThreads == 2      \* threads calling write/emit
MaxLines   == 4      \* lines appended to events.jsonl in one behaviour
MaxReplayLen == 3    \* events of a log handed to reconstruct

Writers == 1..NumWriters
Threads == 1..NumThreads
NoThread == 0

(***************************************************************************)
(* Lines of events.jsonl.  A line is a well-formed event ("event"), text   *)
(* json.loads rejects ("notjson"), or JSON that is not an Event object     *)
(* ("badshape": building the Event raises).     `by` is not part of the   *)
(* file: it records which writer or which run() call appended the line.    *)
(***************************************************************************)
NoRef == [ref |-> <<>>, sha256 |-> [sha256 |-> <<>>], size |-> 0]

Event(type, seq, key, by) ==
    [kind |-> "event", type |-> type, seq |-> seq, key |-> key,
     req |-> "", ref |-> NoRef, info |-> "", by |-> by]

Garbage(kind) ==
    [kind |-> kind, type |-> "", seq |-> 0, key |-> "",
     req |-> "", ref |-> NoRef, info |-> "", by |-> 0]

\* Event.from_json succeeds exactly on well-formed event lines.
from_json_ok(line) == line.kind = "event"

Max(a, b) == IF a >= b THEN a ELSE b

\* A wrong _init_seq: counts the lines of the file instead of taking the
\* largest seq of the lines that parse.
init_seq_count_lines(lines) == Len(lines)

\* EventWriter._init_seq: the largest seq among the lines that parse,
\* starting from 0; a line that raises is skipped by the bare except.
RECURSIVE init_seq(_)
init_seq(lines) ==
    IF lines = <<>> THEN 0
    ELSE LET n == Len(lines)
             rest == init_seq(SubSeq(lines, 1, n - 1))
         IN IF from_json_ok(lines[n]) THEN Max(rest, lines[n].seq) ELSE rest

\* The event lines of the file, in file order.
RECURSIVE EventLines(_)
EventLines(lines) ==
    IF lines = <<>> THEN <<>>
    ELSE LET n == Len(lines)
             rest == EventLines(SubSeq(lines, 1, n - 1))
         IN IF from_json_ok(lines[n]) THEN Append(rest, lines[n]) ELSE rest

(***************************************************************************)
(* EventWriter, thread by thread.                                          *)
(***************************************************************************)
WriterIdle ==
    /\ wstate = [w \in Writers |-> "none"]
    /\ wseq = [w \in Writers |-> 0]
    /\ wlock = [w \in Writers |-> NoThread]
    /\ tpc = [t \in Threads |-> "idle"]
    /\ tw = [t \in Threads |-> 1]
    /\ tev = [t \in Threads |-> 0]

\* EventWriter.__init__ (the body shared by both ways of creating writers).
NewWriter(w) ==
    /\ wstate[w] = "none"
    /\ wstate' = [wstate EXCEPT ![w] = "live"]
    /\ wseq' = [wseq EXCEPT ![w] = init_seq(log)]
    /\ UNCHANGED <<log, wlock, tpc, tw, tev, onlyWriter>>

\* A writer is created only after every earlier writer stopped writing.
NewWriterAfterPrevious(w) ==
    /\ \A v \in Writers : wstate[v] # "live"
    /\ NewWriter(w)

\* A writer is created while other writers on the same directory are live
\* (StageMachine.__init__ and ParallelScheduler.__init__ both call
\* create_run_context).
NewWriterConcurrent(w) ==
    /\ \E v \in Writers : wstate[v] = "live"
    /\ NewWriter(w)

\* The owner stops using the writer; no thread is inside write().
StopWriter(w) ==
    /\ wstate[w] = "live"
    /\ \A t \in Threads : tpc[t] # "idle" => tw[t] # w
    /\ wstate' = [wstate EXCEPT ![w] = "closed"]
    /\ UNCHANGED <<log, wseq, wlock, tpc, tw, tev, onlyWriter>>

\* A write() that does not take the writer's lock.
lock_free_always(w) == TRUE

\* `with self._lock:` can be entered.
lock_free(w) == wlock[w] = NoThread

\* write(): with self._lock
WriteLock(t, w) ==
    /\ tpc[t] = "idle"
    /\ wstate[w] = "live"
    /\ Len(log) < MaxLines
    /\ lock_free(w)
    /\ wlock' = [wlock EXCEPT ![w] = t]
    /\ tpc' = [tpc EXCEPT ![t] = "locked"]
    /\ tw' = [tw EXCEPT ![t] = w]
    /\ UNCHANGED <<log, wstate, wseq, tev, onlyWriter>>

\* write(): self._seq += 1
WriteIncrement(t) ==
    /\ tpc[t] = "locked"
    /\ wseq' = [wseq EXCEPT ![tw[t]] = @ + 1]
    /\ tpc' = [tpc EXCEPT ![t] = "incremented"]
    /\ UNCHANGED <<log, wstate, wlock, tw, tev, onlyWriter>>

\* write(): event.seq = self._seq
WriteAssign(t) ==
    /\ tpc[t] = "incremented"
    /\ tev' = [tev EXCEPT ![t] = wseq[tw[t]]]
    /\ tpc' = [tpc EXCEPT ![t] = "assigned"]
    /\ UNCHANGED <<log, wstate, wseq, wlock, tw, onlyWriter>>

\* A write that opens the file with 'w': the line replaces the file.
WriteAppend_truncating(t) ==
    /\ tpc[t] = "assigned"
    /\ log' = <<Event("custom", tev[t], "", tw[t])>>
    /\ tpc' = [tpc EXCEPT ![t] = "appended"]
    /\ UNCHANGED <<wstate, wseq, wlock, tw, tev, onlyWriter>>

\* write(): open(..., 'a'); f.write(line + '\n'); flush; fsync
WriteAppend(t) ==
    /\ tpc[t] = "assigned"
    /\ log' = Append(log, Event("custom", tev[t], "", tw[t]))
    /\ tpc' = [tpc EXCEPT ![t] = "appended"]
    /\ UNCHANGED <<wstate, wseq, wlock, tw, tev, onlyWriter>>

\* write(): leaving the with block releases the lock
WriteUnlock(t) ==
    /\ tpc[t] = "appended"
    /\ wlock' = [wlock EXCEPT ![tw[t]] = IF @ = t THEN NoThread ELSE @]
    /\ tpc' = [tpc EXCEPT ![t] = "idle"]
    /\ UNCHANGED <<log, wstate, wseq, tw, tev, onlyWriter>>

\* A line that is not an event reaches the file from outside the writer
\* (a corrupted or foreign line), as a complete line.
ForeignLine ==
    /\ Len(log) < MaxLines
    /\ \E k \in {"notjson", "badshape"} : log' = Append(log, Garbage(k))
    /\ UNCHANGED <<writerVars, onlyWriter>>

WriteSteps ==
    \/ \E t \in Threads, w \in Writers : WriteLock(t, w)
    \/ \E t \in Threads : WriteIncrement(t)
    \/ \E t \in Threads : WriteAssign(t)
    \/ \E t \in Threads : WriteAppend(t)
    \/ \E t \in Threads : WriteUnlock(t)

(***************************************************************************)
(* Artifact names, references and RunState (events.py ArtifactRef,         *)
(* runner.py RunState).  A name or path is a sequence of text pieces; the  *)
(* piece "artifacts/" is the prefix ArtifactStore.write puts in a ref.     *)
(***************************************************************************)
EmptyMap == [x \in {} |-> 0]

\* m with key k bound to v (a dict assignment m[k] = v).
MapPut(m, k, v) == [x \in (DOMAIN m) \cup {k} |-> IF x = k THEN v ELSE m[x]]

IsPrefixPiece(x) == x = "artifacts/"
NotPrefixPiece(x) == x # "artifacts/"

\* ref.replace("artifacts/", ""): every occurrence of the piece is removed.
strip_artifacts(path) == SelectSeq(path, NotPrefixPiece)

\* hashlib.sha256(bytes).hexdigest(), taken as collision free: the digest
\* of a content is a value that stands for exactly that content.
hexdigest(bytes) == [sha256 |-> bytes]

\* The ArtifactRef ArtifactStore.write returns for name and bytes.
ArtifactRef(name, bytes) ==
    [ref |-> <<"artifacts/">> \o name, sha256 |-> hexdigest(bytes),
     size |-> Len(bytes)]

\* ArtifactStore.write: the file is replaced atomically.
store_write(fs, name, bytes) == MapPut(fs, name, bytes)

\* The directory without the file called name.
store_remove(fs, name) == [x \in (DOMAIN fs) \ {name} |-> fs[x]]

\* ArtifactStore.verify: the file exists and its digest and size match.
verify(fs, ref) ==
    LET name == strip_artifacts(ref.ref)
    IN /\ name \in DOMAIN fs
       /\ hexdigest(fs[name]) = ref.sha256
       /\ Len(fs[name]) = ref.size

(***************************************************************************)
(* A caller of ArtifactStore.  A content is text (code points), bytes, or  *)
(* a structured value (a list of digits); bytes are numbers 0..255.  The   *)
(* caller keeps one returned ref (`ref`); `fresh` says that nothing has    *)
(* touched the directory since write returned it, `verified` and `ok` are  *)
(* the last answer of verify for it.                                       *)
(***************************************************************************)
\* The bytes ArtifactStore.write puts on disk for a content: json.dumps with
\* indent=2 for a list, str.encode("utf-8") for text, bytes as they are.
content_bytes(content) ==
    LET utf8(cp) == IF cp < 128 THEN <<cp>>
                    ELSE <<192 + (cp \div 64), 128 + (cp % 64)>>
        RECURSIVE encode(_)
        encode(text) == IF text = <<>> THEN <<>>
                        ELSE utf8(Head(text)) \o encode(Tail(text))
        RECURSIVE items(_)
        items(list) == IF Len(list) = 1 THEN <<32, 32, 48 + list[1]>>
                       ELSE <<32, 32, 48 + list[1], 44, 10>> \o items(Tail(list))
        dumps(list) == IF list = <<>> THEN <<91, 93>>
                       ELSE <<91, 10>> \o items(list) \o <<10, 93>>
    IN CASE content.kind = "json" -> dumps(content.val)
         [] content.kind = "str" -> encode(content.val)
         [] OTHER -> content.val

\* Artifact names: flat, nested, and one containing the text "artifacts/".
ArtifactNames == {<<"a.txt">>, <<"sub/", "a.txt">>, <<"artifacts/", "a.txt">>}

\* Contents handed to write: "1", "é", b"1", b"", [] and [1].
ArtifactContents ==
    {[kind |-> "str", val |-> <<49>>], [kind |-> "str", val |-> <<233>>],
     [kind |-> "bytes", val |-> <<49>>], [kind |-> "bytes", val |-> <<>>],
     [kind |-> "json", val |-> <<>>], [kind |-> "json", val |-> <<1>>]}

StoreIdle == store = [ref |-> NoRef, fresh |-> FALSE, verified |-> FALSE, ok |-> FALSE]

\* ref = store.write(name, content); the caller keeps the ref or drops it.
StoreWrite ==
    \E name \in ArtifactNames, content \in ArtifactContents, keep \in BOOLEAN :
      LET bytes == content_bytes(content) IN
        /\ files' = store_write(files, name, bytes)
        /\ store' = IF keep
                    THEN [ref |-> ArtifactRef(name, bytes), fresh |-> TRUE,
                          verified |-> FALSE, ok |-> FALSE]
                    ELSE [store EXCEPT !.fresh = FALSE, !.verified = FALSE]
        /\ UNCHANGED <<log, writerVars, replayVars, lockVars, machVars, schedVars>>

\* store.verify(ref) on the ref the caller kept.
StoreVerify ==
    /\ store.ref # NoRef
    /\ store' = [store EXCEPT !.verified = TRUE, !.ok = verify(files, store.ref)]
    /\ UNCHANGED <<log, files, writerVars, replayVars, lockVars, machVars, schedVars>>

\* A file of the artifacts directory is deleted out-of-band.
StoreDelete ==
    /\ \E name \in DOMAIN files : files' = store_remove(files, name)
    /\ store' = [store EXCEPT !.fresh = FALSE, !.verified = FALSE]
    /\ UNCHANGED <<log, writerVars, replayVars, lockVars, machVars, schedVars>>

\* A file of the artifacts directory is truncated or given other bytes
\* out-of-band.
StoreOverwrite ==
    /\ \E name \in DOMAIN files :
         \E bytes \in ({SubSeq(files[name], 1, k) : k \in 0..Len(files[name])}
                        \cup {content_bytes(c) : c \in ArtifactContents})
                      \ {files[name]} :
            files' = MapPut(files, name, bytes)
    /\ store' = [store EXCEPT !.fresh = FALSE, !.verified = FALSE]
    /\ UNCHANGED <<log, writerVars, replayVars, lockVars, machVars, schedVars>>

\* RunState(run_id=...): the state reconstruct starts from.
RunState ==
    [status |-> "unknown", requirement |-> "", current_stage |-> "",
     completed_stages |-> {}, failed_stages |-> {}, skipped_stages |-> {},
     artifacts |-> EmptyMap, tasks |-> EmptyMap, last_event_seq |-> 0]

TaskProjection(status, output, error) ==
    [status |-> status, output |-> output, error |-> error]

\* StateReconstructor._process_event
process_event(state, event) ==
    LET s == [state EXCEPT !.last_event_seq = event.seq]
        k == event.key
    IN CASE event.type = "run.started" ->
                [s EXCEPT !.status = "running", !.requirement = event.req]
         [] event.type = "run.completed" -> [s EXCEPT !.status = "completed"]
         [] event.type = "run.failed" -> [s EXCEPT !.status = "failed"]
         [] event.type = "run.aborted" -> [s EXCEPT !.status = "aborted"]
         [] event.type = "stage.started" -> [s EXCEPT !.current_stage = k]
         [] event.type = "stage.completed" ->
                [s EXCEPT !.completed_stages = @ \cup {k},
                          !.current_stage = IF @ = k THEN "" ELSE @]
         [] event.type = "stage.failed" ->
                [s EXCEPT !.failed_stages = @ \cup {k}]
         [] event.type = "stage.skipped" ->
                [s EXCEPT !.skipped_stages = @ \cup {k}]
         [] event.type = "artifact.written" ->
                IF event.ref = NoRef THEN s
                ELSE [s EXCEPT !.artifacts =
                         MapPut(@, strip_artifacts(event.ref.ref), event.ref)]
         [] event.type = "task.created" ->
                [s EXCEPT !.tasks =
                     MapPut(@, k, TaskProjection("pending", NoRef, ""))]
         [] event.type = "task.started" ->
                IF k \in DOMAIN s.tasks
                THEN [s EXCEPT !.tasks[k].status = "running"] ELSE s
         [] event.type = "task.completed" ->
                IF k \in DOMAIN s.tasks
                THEN [s EXCEPT !.tasks[k].status = "completed",
                               !.tasks[k].output = event.ref]
                ELSE s
         [] event.type = "task.failed" ->
                IF k \in DOMAIN s.tasks
                THEN [s EXCEPT !.tasks[k].status = "failed",
                               !.tasks[k].error = event.info]
                ELSE s
         [] event.type = "task.skipped" ->
                IF k \in DOMAIN s.tasks
                THEN [s EXCEPT !.tasks[k].status = "skipped"] ELSE s
         [] OTHER -> s

\* StateReconstructor.reconstruct over lines that all parse: the fold of
\* _process_event over the events in file order.
RECURSIVE reconstruct(_)
reconstruct(lines) ==
    IF lines = <<>> THEN RunState
    ELSE LET n == Len(lines)
             before == reconstruct(SubSeq(lines, 1, n - 1))
         IN IF from_json_ok(lines[n]) THEN process_event(before, lines[n])
            ELSE before

\* RunState.is_stage_done
is_stage_done(state, name) ==
    name \in state.completed_stages \/ name \in state.skipped_stages

\* A can_skip that never lets a stage be skipped.
can_skip_never(state, stage, fs) == FALSE

\* A can_skip that trusts the completed set without looking at artifacts.
can_skip_completed_only(state, stage, fs) ==
    stage.name \in state.completed_stages

\* A can_skip that takes a stage for completed when it is_stage_done.
can_skip_done(state, stage, fs) ==
    /\ is_stage_done(state, stage.name)
    /\ \A k \in 1..Len(stage.outputs) :
          /\ stage.outputs[k] \in DOMAIN state.artifacts
          /\ verify(fs, state.artifacts[stage.outputs[k]])

\* RunState.can_skip: the stage completed and every declared output is
\* recorded and verifies against the file in the store.
can_skip(state, stage, fs) ==
    /\ stage.name \in state.completed_stages
    /\ \A k \in 1..Len(stage.outputs) :
          /\ stage.outputs[k] \in DOMAIN state.artifacts
          /\ verify(fs, state.artifacts[stage.outputs[k]])

Stage(name, required_inputs, outputs) ==
    [name |-> name, required_inputs |-> required_inputs, outputs |-> outputs]

\* StageMachine.DEFAULT_STAGES
DEFAULT_STAGES ==
    << Stage("plan", <<>>, << <<"plan.json">> >>),
       Stage("develop", << <<"plan.json">> >>, << <<"code_changes.json">> >>),
       Stage("verify", << <<"code_changes.json">> >>, << <<"verify_result.json">> >>),
       Stage("integrate", << <<"verify_result.json">> >>,
             << <<"integration_result.json">> >>) >>

(***************************************************************************)
(* reconstruct, call by call: EventReader.iter_events opens the file and   *)
(* yields one event per step; reconstruct folds them into a fresh state.   *)
(***************************************************************************)
Replayers == 1..2

ReplayIdle ==
    /\ rpc = [r \in Replayers |-> "idle"]
    /\ rpos = [r \in Replayers |-> 0]
    /\ rstate = [r \in Replayers |-> RunState]
    /\ rresult = [r \in Replayers |-> RunState]

\* An iterator that goes on from where the previous call on the same
\* reader stopped.
iter_start_kept(r) == rpos[r]

\* iter_events opens events.jsonl anew: every call starts at the first line.
iter_start(r) == 0

\* reconstruct(): state = RunState(...); the iterator is created
ReconstructCall(r) ==
    /\ rpc[r] \in {"idle", "done", "raised"}
    /\ rpc' = [rpc EXCEPT ![r] = "iter"]
    /\ rpos' = [rpos EXCEPT ![r] = iter_start(r)]
    /\ rstate' = [rstate EXCEPT ![r] = RunState]
    /\ UNCHANGED <<log, rresult, onlyReplay>>

\* for event in iter_events(): _process_event(state, event).  A line that
\* json.loads rejects is skipped (except json.JSONDecodeError); a line of
\* JSON that Event cannot be built from makes cls(...) raise TypeError,
\* which nothing catches: the call ends with the exception.
ReconstructStep(r) ==
    /\ rpc[r] = "iter"
    /\ rpos[r] < Len(log)
    /\ LET line == log[rpos[r] + 1]
       IN /\ rstate' = [rstate EXCEPT ![r] =
                           IF from_json_ok(line) THEN process_event(@, line) ELSE @]
          /\ rpc' = [rpc EXCEPT ![r] =
                        IF line.kind = "badshape" THEN "raised" ELSE @]
    /\ rpos' = [rpos EXCEPT ![r] = @ + 1]
    /\ UNCHANGED <<log, rresult, onlyReplay>>

\* the iterator is exhausted: return state
ReconstructReturn(r) ==
    /\ rpc[r] = "iter"
    /\ rpos[r] >= Len(log)
    /\ rpc' = [rpc EXCEPT ![r] = "done"]
    /\ rresult' = [rresult EXCEPT ![r] = rstate[r]]
    /\ UNCHANGED <<log, rpos, rstate, onlyReplay>>

(***************************************************************************)
(* FileLock / RunLock on locks/run.lock.  Every StageMachine owns one      *)
(* FileLock object; acquire opens a descriptor of its own, and the lock    *)
(* (flock on posix, msvcrt.locking on nt) belongs to that descriptor.      *)
(***************************************************************************)
Machines == Writers
NoHolder == 0

LockIdle(os) ==
    /\ osname = os
    /\ fd = [m \in Machines |-> "none"]
    /\ flock = NoHolder

\* A lock that belongs to the process (as fcntl.lockf would): a descriptor
\* of the process that already holds it is granted the lock again.
lock_granted_per_process(m) ==
    IF flock = NoHolder THEN TRUE ELSE mach[flock].process = mach[m].process

\* fcntl.flock(LOCK_EX) / msvcrt.locking(LK_NBLCK) succeeds for the
\* descriptor of m: no other descriptor holds the lock.
lock_granted(m) == flock = NoHolder

\* FileLock.release: unlock and close the descriptor if there is one.
release(m) ==
    /\ fd' = [fd EXCEPT ![m] = "none"]
    /\ flock' = IF fd[m] = "open" /\ flock = m THEN NoHolder ELSE flock

(***************************************************************************)
(* StageMachine.  mach[m] holds the fields of the object (fail_fast,       *)
(* process) and the locals of its run() call: args, state, requirement,    *)
(* start_idx, i, result; pc is the position inside run().  `inv` numbers   *)
(* the call, `called` are the stages whose handler the call invoked and    *)
(* `skippable` the stages the log recorded as completed, with unchanged    *)
(* outputs on disk, when the call reconstructed its state.  Stage          *)
(* positions count from 1.                                                 *)
(***************************************************************************)
NoArgs == [requirement |-> "", resume |-> FALSE, from_stage |-> ""]

NewMachine ==
    [pc |-> "none", fail_fast |-> FALSE, process |-> 1, args |-> NoArgs,
     inv |-> 0, state |-> RunState, requirement |-> "", start_idx |-> 1,
     i |-> 1, result |-> "", error |-> "", outcome |-> "", called |-> {},
     skippable |-> {}]

MachineIdle(stageList, lim) ==
    /\ stages = stageList
    /\ limits = lim
    /\ used = [runs |-> 0, faults |-> 0, werrs |-> 0]
    /\ invs = 0
    /\ mach = [m \in Machines |-> NewMachine]

NoLimits ==
    [runs |-> 0, faults |-> 0, werrs |-> 0, processes |-> 1, requirements |-> {}]

\* The requirement texts run() may be called with ("" is the default).
Requirements == limits.requirements

\* The processes machine m may live in: machine 1 in process 1, a later
\* machine in the same process or in another one.
ProcessesOf(m) == 1..(IF m <= limits.processes THEN m ELSE limits.processes)
StageNames == {stages[k].name : k \in 1..Len(stages)}
FromStages == {""} \cup StageNames \cup {"nosuch"}

\* A start index that ignores from_stage.
StageIndex_first(name) == 1

\* run(): start_idx, the position of the stage called from_stage.
StageIndex(name) == CHOOSE k \in 1..Len(stages) : stages[k].name = name

\* The positions of run() between the lock being acquired and released.
CriticalPcs ==
    {"locked", "from_stage", "skip_before", "loop", "handler", "result",
     "except", "failfast", "finish", "finally"}
Running(m) == mach[m].pc \notin {"none", "ready", "done"}

\* An exit that skips the finally block when the run is not valid.
exit_pc_unprotected(kind) == IF kind = "ValueError" THEN "done" ELSE "finally"

\* Every return and every raise inside the try block passes the finally.
exit_pc(kind) == "finally"

Exit(rec, kind) == [rec EXCEPT !.outcome = kind, !.pc = exit_pc(kind)]

LoopPc(i) == IF i > Len(stages) THEN "finish" ELSE "loop"

\* writer.emit by machine m: _seq is incremented first; the append either
\* succeeds or raises (ok = FALSE) and leaves the file as it was.
Stamp(m, ev) == [ev EXCEPT !.seq = wseq[m] + 1, !.by = mach[m].inv]
Emit(m, ev, ok) ==
    /\ wseq' = [wseq EXCEPT ![m] = @ + 1]
    /\ log' = IF ok THEN Append(log, Stamp(m, ev)) ELSE log
    /\ used' = IF ok THEN used ELSE [used EXCEPT !.werrs = @ + 1]
NoEmit == UNCHANGED <<log, wseq, used>>
WriteOutcomes == IF used.werrs < limits.werrs THEN BOOLEAN ELSE {TRUE}

StageEvent(type, name, info) == [Event(type, 0, name, 0) EXCEPT !.info = info]

SetMach(m, rec) == mach' = [mach EXCEPT ![m] = rec]

fixedVars == <<osname, stages, limits>>

\* StageMachine.__init__: create_run_context builds the writer (which reads
\* its _seq from the log), the store and the lock.
MachineNew(m) ==
    /\ mach[m].pc \in {"none", "done"}
    /\ used.runs < limits.runs
    /\ \E ff \in BOOLEAN, p \in ProcessesOf(m) :
          SetMach(m, [NewMachine EXCEPT !.pc = "ready", !.fail_fast = ff,
                                        !.process = p])
    /\ wstate' = [wstate EXCEPT ![m] = "live"]
    /\ wseq' = [wseq EXCEPT ![m] = init_seq(log)]
    /\ fd' = [fd EXCEPT ![m] = "none"]
    /\ UNCHANGED <<log, files, flock, used, invs, fixedVars, onlyMachine>>

\* A machine is built when no other machine of the directory is in use.
MachineNewAlone(m) ==
    /\ \A o \in Machines : mach[o].pc \in {"none", "done"}
    /\ MachineNew(m)

\* run(requirement, resume, from_stage) is called.
RunCall(m) ==
    /\ mach[m].pc = "ready"
    /\ used.runs < limits.runs
    /\ \E r \in Requirements, res \in BOOLEAN, f \in FromStages :
          SetMach(m, [mach[m] EXCEPT
                        !.pc = "acquire",
                        !.args = [requirement |-> r, resume |-> res,
                                  from_stage |-> f],
                        !.inv = invs + 1])
    /\ invs' = invs + 1
    /\ used' = [used EXCEPT !.runs = @ + 1]
    /\ UNCHANGED <<log, wstate, wseq, files, fd, flock, fixedVars, onlyMachine>>

\* FileLock.acquire: self._fd = open(lock_path, 'w')
AcquireOpen(m) ==
    /\ mach[m].pc = "acquire"
    /\ fd' = [fd EXCEPT ![m] = "open"]
    /\ SetMach(m, [mach[m] EXCEPT !.pc = "waiting"])
    /\ UNCHANGED <<log, wstate, wseq, files, flock, used, invs, fixedVars,
                   onlyMachine>>

\* FileLock.acquire: the lock call returns; acquire returns True.
AcquireLocked(m) ==
    /\ mach[m].pc = "waiting"
    /\ lock_granted(m)
    /\ flock' = m
    /\ SetMach(m, [mach[m] EXCEPT !.pc = "locked"])
    /\ UNCHANGED <<log, wstate, wseq, files, fd, used, invs, fixedVars,
                   onlyMachine>>

\* FileLock.acquire on nt: the lock stayed taken for `timeout` seconds;
\* acquire returns False with the descriptor left open, and run raises
\* TimeoutError before entering the try block.  (On posix flock blocks.)
AcquireTimeout(m) ==
    /\ mach[m].pc = "waiting"
    /\ osname = "nt"
    /\ ~lock_granted(m)
    /\ SetMach(m, [mach[m] EXCEPT !.pc = "done", !.outcome = "TimeoutError"])
    /\ UNCHANGED <<log, wstate, wseq, files, fd, flock, used, invs, fixedVars,
                   onlyMachine>>

\* Line e is an artifact.written event for the artifact called name.
IsArtifactOf(e, name) ==
    /\ from_json_ok(e)
    /\ e.type = "artifact.written"
    /\ strip_artifacts(e.ref.ref) = name

\* What the log and the disk say about a stage, read without the reducer:
\* the log holds stage.completed for it and, for each declared output, an
\* artifact.written whose latest ref the file on disk still matches.
RecordedUnchanged(stage) ==
    /\ \E p \in 1..Len(log) :
          from_json_ok(log[p]) /\ log[p].type = "stage.completed"
                               /\ log[p].key = stage.name
    /\ \A k \in 1..Len(stage.outputs) :
          LET at == {q \in 1..Len(log) : IsArtifactOf(log[q], stage.outputs[k])}
          IN /\ at # {}
             /\ LET last == CHOOSE q \in at : \A o \in at : o <= q
                IN verify(files, log[last].ref)

\* A resume that goes on whatever the reconstructed status is.
already_completed_never(state) == FALSE

\* run(), resume: if state.status == "completed": return state
already_completed(state) == state.status = "completed"

\* run(): reconstruct the state, then choose between resuming and a new
\* execution (which emits run.started).
RunReconstruct(m) ==
    /\ mach[m].pc = "locked"
    /\ LET state == reconstruct(log)
           a == mach[m].args
           can == {stages[k].name : k \in
                     {j \in 1..Len(stages) : RecordedUnchanged(stages[j])}}
           base == [mach[m] EXCEPT !.state = state, !.skippable = can]
       IN IF a.resume
          THEN /\ NoEmit
               /\ SetMach(m,
                    IF already_completed(state) THEN Exit(base, "returned")
                    ELSE IF state.requirement = "" /\ a.requirement = ""
                    THEN Exit(base, "ValueError")
                    ELSE [base EXCEPT
                            !.requirement = IF state.requirement # ""
                                            THEN state.requirement
                                            ELSE a.requirement,
                            !.pc = "from_stage"])
          ELSE IF a.requirement = ""
          THEN NoEmit /\ SetMach(m, Exit(base, "ValueError"))
          ELSE \E ok \in WriteOutcomes :
                 /\ Emit(m, [Event("run.started", 0, "", 0)
                               EXCEPT !.req = a.requirement], ok)
                 /\ SetMach(m,
                      IF ok
                      THEN [base EXCEPT !.requirement = a.requirement,
                                        !.state.requirement = a.requirement,
                                        !.state.status = "running",
                                        !.pc = "from_stage"]
                      ELSE Exit(base, "OSError"))
    /\ UNCHANGED <<wstate, files, fd, flock, invs, fixedVars, onlyMachine>>

\* run(): start_idx; an unknown from_stage raises ValueError.
RunFromStage(m) ==
    /\ mach[m].pc = "from_stage"
    /\ LET f == mach[m].args.from_stage
       IN SetMach(m,
            IF f = "" THEN [mach[m] EXCEPT !.start_idx = 1, !.i = 1,
                                           !.pc = LoopPc(1)]
            ELSE IF f \notin StageNames THEN Exit(mach[m], "ValueError")
            ELSE [mach[m] EXCEPT !.start_idx = StageIndex(f), !.i = 1,
                                 !.pc = "skip_before"])
    /\ UNCHANGED <<log, wstate, wseq, files, fd, flock, used, invs, fixedVars,
                   onlyMachine>>

\* run(): for i in range(start_idx): a stage that is not done is skipped
\* ("from_stage"); one stage.skipped per step, then on to the stage loop.
RunSkipBefore(m) ==
    /\ mach[m].pc = "skip_before"
    /\ LET todo == {j \in 1..(mach[m].start_idx - 1) :
                      ~is_stage_done(mach[m].state, stages[j].name)}
       IN IF todo = {}
          THEN /\ NoEmit
               /\ SetMach(m, [mach[m] EXCEPT !.i = mach[m].start_idx,
                                             !.pc = LoopPc(mach[m].start_idx)])
          ELSE LET j == CHOOSE x \in todo : \A y \in todo : x <= y
               IN \E ok \in WriteOutcomes :
                    /\ Emit(m, StageEvent("stage.skipped", stages[j].name,
                                          "from_stage"), ok)
                    /\ SetMach(m,
                         IF ok
                         THEN [mach[m] EXCEPT !.state.skipped_stages =
                                                  @ \cup {stages[j].name}]
                         ELSE Exit(mach[m], "OSError"))
    /\ UNCHANGED <<wstate, files, fd, flock, invs, fixedVars, onlyMachine>>

\* The stage loop, can_skip holds: _skip_stage and continue.
StageSkip(m) ==
    /\ mach[m].pc = "loop"
    /\ LET stage == stages[mach[m].i]
       IN /\ can_skip(mach[m].state, stage, files)
          /\ \E ok \in WriteOutcomes :
               /\ Emit(m, StageEvent("stage.skipped", stage.name, "verified"), ok)
               /\ SetMach(m,
                    IF ok
                    THEN [mach[m] EXCEPT !.state.skipped_stages =
                                             @ \cup {stage.name},
                                         !.i = @ + 1,
                                         !.pc = LoopPc(mach[m].i + 1)]
                    ELSE Exit(mach[m], "OSError"))
    /\ UNCHANGED <<wstate, files, fd, flock, invs, fixedVars, onlyMachine>>

\* The stage loop, can_skip does not hold: the stage leaves completed (and
\* failed, on resume) and _execute_stage emits stage.started.
StageStart(m) ==
    /\ mach[m].pc = "loop"
    /\ LET stage == stages[mach[m].i]
           cleared == [mach[m] EXCEPT
                         !.state.completed_stages = @ \ {stage.name},
                         !.state.failed_stages =
                             IF mach[m].args.resume THEN @ \ {stage.name} ELSE @]
       IN /\ ~can_skip(mach[m].state, stage, files)
          /\ \E ok \in WriteOutcomes :
               /\ Emit(m, StageEvent("stage.started", stage.name, ""), ok)
               /\ SetMach(m, IF ok THEN [cleared EXCEPT !.pc = "handler"]
                             ELSE Exit(cleared, "OSError"))
    /\ UNCHANGED <<wstate, files, fd, flock, invs, fixedVars, onlyMachine>>

\* What a stage handler may do: write every declared output (store.write,
\* emit artifact.written, record the ref in state.artifacts) or none, and
\* return COMPLETED or FAILED, return a result whose status is neither
\* ("skipped": SKIPPED, PENDING, RUNNING, or a value that is no StageStatus),
\* or raise ("raise": also a returned value such as None, on which
\* _execute_stage itself raises inside its try block).
HandlerOutcomes == {"completed", "failed", "skipped", "raise"}
Content == <<1>>
Changed == <<2>>
Range(seq) == {seq[k] : k \in 1..Len(seq)}

\* _execute_stage: result = stage.handler(ctx).  A handler that does not
\* write its outputs, or does not return COMPLETED, counts as a deviation.
StageHandler(m) ==
    /\ mach[m].pc = "handler"
    /\ LET stage == stages[mach[m].i]
           outs == stage.outputs
       IN \E w \in BOOLEAN, r \in HandlerOutcomes :
            /\ (w /\ r = "completed") \/ used.faults < limits.faults
            /\ used' = IF w /\ r = "completed" THEN used
                       ELSE [used EXCEPT !.faults = @ + 1]
            /\ files' = IF w
                        THEN [x \in (DOMAIN files) \cup Range(outs) |->
                                 IF x \in Range(outs) THEN Content ELSE files[x]]
                        ELSE files
            /\ log' = IF w
                      THEN log \o [k \in 1..Len(outs) |->
                              [Event("artifact.written", wseq[m] + k, "",
                                     mach[m].inv)
                                 EXCEPT !.ref = ArtifactRef(outs[k], Content)]]
                      ELSE log
            /\ wseq' = [wseq EXCEPT ![m] = IF w THEN @ + Len(outs) ELSE @]
            /\ SetMach(m, [mach[m] EXCEPT
                   !.state.artifacts =
                       IF w
                       THEN [x \in (DOMAIN @) \cup Range(outs) |->
                                IF x \in Range(outs)
                                THEN ArtifactRef(x, Content) ELSE @[x]]
                       ELSE @,
                   !.called = @ \cup {stage.name},
                   !.result = r,
                   !.error = IF r = "raise" THEN "handler raised"
                             ELSE IF r = "failed" THEN "handler failed" ELSE "",
                   !.pc = IF r = "raise" THEN "except" ELSE "result"])
    /\ UNCHANGED <<wstate, fd, flock, invs, fixedVars, onlyMachine>>

(***************************************************************************)
(* The handlers of stages.py (get_default_stages).  verify_result.json is  *)
(* the bytes <<1>> when its overall_success is true and <<0>> when it is   *)
(* false; other bytes are not JSON, read_json raises on them.              *)
(***************************************************************************)
\* An integrate handler without the check of the verification result.
integrate_blocked_never(inputs, fs) == FALSE

\* integrate_handler: verify_result.json is among ctx.inputs, read_json
\* gives a verify_result, and its overall_success is false.
integrate_blocked(inputs, fs) ==
    LET name == <<"verify_result.json">>
    IN /\ name \in inputs
       /\ name \in DOMAIN fs
       /\ fs[name] \in {<<0>>, <<1>>}
       /\ fs[name] = <<0>>

\* _execute_stage: result = stage.handler(ctx) for plan_handler,
\* develop_handler, verify_handler and integrate_handler.  `success` is
\* the outcome of the TDD cycle (develop) or of lint and tests (verify).
\* Every handler but a blocked integrate writes its output, emits
\* artifact.written and records the ref in ctx.state.artifacts.
DefaultHandler(m) ==
    /\ mach[m].pc = "handler"
    /\ LET stage == stages[mach[m].i]
           name == stage.name
           out == stage.outputs[1]
           inputs == Range(stage.required_inputs)
                        \cap DOMAIN mach[m].state.artifacts
       IN \E success \in BOOLEAN :
            LET blocked == name = "integrate" /\ integrate_blocked(inputs, files)
                bytes == IF name = "verify"
                         THEN <<IF success THEN 1 ELSE 0>> ELSE Content
                r == IF blocked \/ (name \in {"develop", "verify"} /\ ~success)
                     THEN "failed" ELSE "completed"
                err == IF blocked THEN "Cannot integrate: verification failed"
                       ELSE IF r = "completed" THEN ""
                       ELSE IF name = "verify" THEN "Verify failed"
                       ELSE "TDD cycle failed (green phase)"
            IN /\ files' = IF blocked THEN files
                           ELSE store_write(files, out, bytes)
               /\ log' = IF blocked THEN log
                         ELSE Append(log,
                                [Event("artifact.written", wseq[m] + 1, "",
                                       mach[m].inv)
                                   EXCEPT !.ref = ArtifactRef(out, bytes)])
               /\ wseq' = [wseq EXCEPT ![m] = IF blocked THEN @ ELSE @ + 1]
               /\ SetMach(m, [mach[m] EXCEPT
                      !.state.artifacts =
                          IF blocked THEN @
                          ELSE MapPut(@, out, ArtifactRef(out, bytes)),
                      !.called = @ \cup {name},
                      !.result = r,
                      !.error = err,
                      !.pc = "result"])
    /\ UNCHANGED <<used, wstate, fd, flock, invs, fixedVars, onlyMachine>>

\* A loop that goes on to the next stage whatever the result was.
After_continue(rec, failed) == [rec EXCEPT !.i = @ + 1, !.pc = LoopPc(rec.i + 1)]

\* run(): after _execute_stage returned: fail fast, or the next stage.
After(rec, failed) ==
    IF failed /\ rec.fail_fast THEN [rec EXCEPT !.pc = "failfast"]
    ELSE [rec EXCEPT !.i = @ + 1, !.pc = LoopPc(rec.i + 1)]

\* _execute_stage: the handler returned.  COMPLETED and FAILED are
\* recorded; any other status emits nothing and records nothing.  An emit
\* that raises is caught by the except clause.
StageResult(m) ==
    /\ mach[m].pc = "result"
    /\ LET name == stages[mach[m].i].name
           r == mach[m].result
           caught == [mach[m] EXCEPT !.pc = "except", !.error = "write failed"]
       IN IF r = "completed"
          THEN \E ok \in WriteOutcomes :
                 /\ Emit(m, StageEvent("stage.completed", name, ""), ok)
                 /\ SetMach(m,
                      IF ok
                      THEN After([mach[m] EXCEPT !.state.completed_stages =
                                                     @ \cup {name}], FALSE)
                      ELSE caught)
          ELSE IF r = "failed"
          THEN \E ok \in WriteOutcomes :
                 /\ Emit(m, StageEvent("stage.failed", name, mach[m].error), ok)
                 /\ SetMach(m,
                      IF ok
                      THEN After([mach[m] EXCEPT !.state.failed_stages =
                                                     @ \cup {name}], TRUE)
                      ELSE caught)
          ELSE NoEmit /\ SetMach(m, After(mach[m], FALSE))
    /\ UNCHANGED <<wstate, files, fd, flock, invs, fixedVars, onlyMachine>>

\* _execute_stage: except Exception: emit stage.failed, record the stage
\* as failed and return FAILED; an emit that raises here leaves run().
StageExcept(m) ==
    /\ mach[m].pc = "except"
    /\ LET name == stages[mach[m].i].name
       IN \E ok \in WriteOutcomes :
            /\ Emit(m, StageEvent("stage.failed", name, mach[m].error), ok)
            /\ SetMach(m,
                 IF ok
                 THEN After([mach[m] EXCEPT !.state.failed_stages =
                                                @ \cup {name},
                                            !.result = "failed"], TRUE)
                 ELSE Exit(mach[m], "OSError"))
    /\ UNCHANGED <<wstate, files, fd, flock, invs, fixedVars, onlyMachine>>

\* run(): result FAILED and fail_fast: emit run.failed and return.
RunFailFast(m) ==
    /\ mach[m].pc = "failfast"
    /\ \E ok \in WriteOutcomes :
         /\ Emit(m, StageEvent("run.failed", stages[mach[m].i].name,
                               mach[m].error), ok)
         /\ SetMach(m, IF ok THEN Exit([mach[m] EXCEPT !.state.status = "failed"],
                                       "returned")
                       ELSE Exit(mach[m], "OSError"))
    /\ UNCHANGED <<wstate, files, fd, flock, invs, fixedVars, onlyMachine>>

\* A completion test that does not look at the stages.
all_done_always(state) == TRUE

\* run(): all_done = all(state.is_stage_done(s.name) for s in self.stages)
all_done(state) ==
    \A k \in 1..Len(stages) : is_stage_done(state, stages[k].name)

\* run(): after the loop: when every stage is done, emit run.completed and
\* save_stats writes stats.json; then return state.
RunFinish(m) ==
    /\ mach[m].pc = "finish"
    /\ LET done == all_done(mach[m].state)
       IN IF done
          THEN \E ok \in WriteOutcomes :
                 /\ Emit(m, Event("run.completed", 0, "", 0), ok)
                 /\ files' = IF ok
                             THEN store_write(files, <<"stats.json">>,
                                              <<Len(log) + 1>>)
                             ELSE files
                 /\ SetMach(m,
                      IF ok THEN Exit([mach[m] EXCEPT !.state.status = "completed"],
                                      "returned")
                      ELSE Exit(mach[m], "OSError"))
          ELSE /\ NoEmit
               /\ UNCHANGED files
               /\ SetMach(m, Exit(mach[m], "returned"))
    /\ UNCHANGED <<wstate, fd, flock, invs, fixedVars, onlyMachine>>

\* run(): finally: self.lock.release()
RunFinally(m) ==
    /\ mach[m].pc = "finally"
    /\ release(m)
    /\ SetMach(m, [mach[m] EXCEPT !.pc = "done"])
    /\ UNCHANGED <<log, wstate, wseq, files, used, invs, fixedVars, onlyMachine>>

\* The owner of a machine that is not inside run() calls lock.release().
ExtraRelease(m) ==
    /\ mach[m].pc \in {"ready", "done"}
    /\ release(m)
    /\ UNCHANGED <<log, wstate, wseq, files, used, invs, mach, fixedVars,
                   onlyMachine>>

\* Between runs an artifact file is changed or removed on disk.
Tamper ==
    /\ \A m \in Machines : ~Running(m)
    /\ used.faults < limits.faults
    /\ used' = [used EXCEPT !.faults = @ + 1]
    /\ \E name \in DOMAIN files :
         \/ files' = store_write(files, name, Changed)
         \/ files' = store_remove(files, name)
    /\ UNCHANGED <<log, wstate, wseq, fd, flock, invs, mach, fixedVars,
                   onlyMachine>>

(***************************************************************************)
(* TaskGraph and ParallelScheduler.  `plan` is what schedule() is given    *)
(* (the task list with dependencies, fail_fast, max_workers and every      *)
(* task's max_retries); `graph` is TaskGraph.tasks; `sched` holds the      *)
(* scheduler's _should_stop and the locals of schedule(): futures (in      *)
(* insertion order), results, the position of the drain loop, its writer's *)
(* _seq.  A future is "queued", "running", "finished" or "cancelled".      *)
(***************************************************************************)
TaskList == <<"t1", "t2", "t3">>
TaskIds == {TaskList[k] : k \in 1..Len(TaskList)}

NoPlan ==
    [deps |-> [t \in TaskIds |-> {}], fail_fast |-> FALSE, max_workers |-> 1,
     max_retries |-> 0, failures |-> 0]

Task(deps) == [status |-> "pending", retry_count |-> 0, dependencies |-> deps]

NewSched ==
    [pc |-> "idle", should_stop |-> FALSE, futures |-> <<>>, results |-> EmptyMap,
     drain |-> 1, seq |-> 0, failed |-> 0]

SchedIdle(p) ==
    /\ plan = p
    /\ graph = EmptyMap
    /\ sched = NewSched

\* A readiness test that only asks for the dependency to be in the graph.
dep_satisfied_if_present(g, d) == d \in DOMAIN g

\* get_ready_tasks: one dependency is satisfied when it is a task of the
\* graph whose status is COMPLETED or SKIPPED.
dep_satisfied(g, d) ==
    IF d \in DOMAIN g THEN g[d].status \in {"completed", "skipped"} ELSE FALSE

\* TaskGraph.get_ready_tasks, in the order of the tasks dict.
get_ready_tasks(g) ==
    LET Ready(t) == /\ t \in DOMAIN g
                    /\ g[t].status = "pending"
                    /\ \A d \in g[t].dependencies : dep_satisfied(g, d)
    IN SelectSeq(TaskList, Ready)

\* TaskGraph.is_all_done
is_all_done(g) ==
    \A t \in DOMAIN g :
        g[t].status \in {"completed", "failed", "skipped", "cancelled"}

\* A retry test that never says no.
can_retry_always(g, t) == t \in DOMAIN g

\* TaskGraph.can_retry
can_retry(g, t) == IF t \in DOMAIN g THEN g[t].retry_count < plan.max_retries
                   ELSE FALSE

\* _handle_result, the graph it leaves: mark_completed, increment_retry
\* (back to PENDING) or mark_failed.
handle_result_graph(g, t, status) ==
    IF status = "completed" THEN [g EXCEPT ![t].status = "completed"]
    ELSE IF status = "failed"
    THEN IF can_retry(g, t)
         THEN [g EXCEPT ![t].status = "pending", ![t].retry_count = @ + 1]
         ELSE [g EXCEPT ![t].status = "failed"]
    ELSE g

TaskOutput(t) == ArtifactRef(<<"task_", t, ".result.json">>, Content)

\* _handle_result, the events it emits, numbered from seq + 1.
handle_result_events(g, t, status, seq) ==
    IF status = "completed"
    THEN << [Event("task.completed", seq + 1, t, 0) EXCEPT !.ref = TaskOutput(t)],
            [Event("artifact.written", seq + 2, "", 0) EXCEPT !.ref = TaskOutput(t)] >>
    ELSE IF status = "failed"
    THEN IF can_retry(g, t)
         THEN << [Event("task.retrying", seq + 1, t, 0) EXCEPT !.info = "failed"] >>
         ELSE << [Event("task.failed", seq + 1, t, 0) EXCEPT !.info = "failed"] >>
    ELSE <<>>

Future(t) == [task |-> t, state |-> "queued", result |-> ""]

\* The result the scheduler takes from a future: future.result() gives the
\* TaskResult the executor returned; when result() raises (the executor
\* raised, the future was cancelled, or it is still not finished after the
\* drain's timeout) the except clause builds a FAILED result.
drained_result(f) ==
    IF f.state = "finished" /\ f.result # "raise" THEN f.result ELSE "failed"

\* The sequence without its k-th element (futures.pop).
Without(seq, k) == SubSeq(seq, 1, k - 1) \o SubSeq(seq, k + 1, Len(seq))

\* A submit loop without the break: every ready task is submitted.
Min_unbounded(a, b) == a

Min(a, b) == IF a <= b THEN a ELSE b

\* ParallelScheduler.__init__ and the head of schedule(): the writer reads
\* its _seq from the log, the tasks enter the graph as PENDING, and one
\* task.created is emitted per task.
ScheduleCall ==
    /\ sched.pc = "idle"
    /\ graph' = [t \in TaskIds |-> Task(plan.deps[t])]
    /\ log' = log \o [j \in 1..Len(TaskList) |->
                         Event("task.created", init_seq(log) + j, TaskList[j], 0)]
    /\ sched' = [sched EXCEPT !.pc = "loop",
                              !.seq = init_seq(log) + Len(TaskList)]
    /\ UNCHANGED <<plan, files, onlySched>>

\* The main loop: get_ready_tasks, then submit ready tasks while fewer than
\* max_workers futures are held (mark_running, task.started, pool.submit);
\* with no future held and nothing ready the loop is left.
SubmitReady ==
    /\ sched.pc = "loop"
    /\ ~is_all_done(graph) /\ ~sched.should_stop
    /\ LET ready == get_ready_tasks(graph)
           room == plan.max_workers - Len(sched.futures)
           k == IF room <= 0 THEN 0 ELSE Min(Len(ready), room)
           chosen == SubSeq(ready, 1, k)
           held == sched.futures \o [j \in 1..k |-> Future(chosen[j])]
       IN /\ graph' = [t \in DOMAIN graph |->
                          IF t \in Range(chosen)
                          THEN [graph[t] EXCEPT !.status = "running"]
                          ELSE graph[t]]
          /\ log' = log \o [j \in 1..k |->
                               Event("task.started", sched.seq + j, chosen[j], 0)]
          /\ sched' = [sched EXCEPT
                          !.futures = held,
                          !.seq = @ + k,
                          !.pc = IF held = <<>>
                                 THEN (IF ready = <<>> THEN "drain" ELSE "loop")
                                 ELSE "wait"]
    /\ UNCHANGED <<plan, files, onlySched>>

\* while not is_all_done() and not _should_stop: the condition fails.
LoopExit ==
    /\ sched.pc = "loop"
    /\ is_all_done(graph) \/ sched.should_stop
    /\ sched' = [sched EXCEPT !.pc = "drain"]
    /\ UNCHANGED <<log, plan, graph, files, onlySched>>

\* as_completed yields a finished future: it is popped, its result
\* handled, and on a FAILED result under fail_fast the scheduler stops,
\* cancels the futures it still holds and marks their tasks cancelled.
Harvest(k) ==
    /\ sched.pc = "wait"
    /\ k \in 1..Len(sched.futures)
    /\ sched.futures[k].state = "finished"
    /\ LET t == sched.futures[k].task
           r == drained_result(sched.futures[k])
           rest == Without(sched.futures, k)
           stop == plan.fail_fast /\ r = "failed"
           handled == handle_result_graph(graph, t, r)
           events == handle_result_events(graph, t, r, sched.seq)
       IN /\ graph' = IF stop
                      THEN [x \in DOMAIN handled |->
                              IF \E j \in 1..Len(rest) : rest[j].task = x
                              THEN [handled[x] EXCEPT !.status = "cancelled"]
                              ELSE handled[x]]
                      ELSE handled
          /\ log' = log \o events
          /\ sched' = [sched EXCEPT
                          !.results = MapPut(@, t, r),
                          !.seq = @ + Len(events),
                          !.should_stop = IF stop THEN TRUE ELSE @,
                          !.futures =
                              IF stop
                              THEN [j \in 1..Len(rest) |->
                                      IF rest[j].state = "queued"
                                      THEN [rest[j] EXCEPT !.state = "cancelled"]
                                      ELSE rest[j]]
                              ELSE rest,
                          !.pc = "loop"]
    /\ UNCHANGED <<plan, files, onlySched>>

\* as_completed(timeout=0.1): no future finished in time; TimeoutError
\* leaves schedule().
PollTimeout ==
    /\ sched.pc = "wait"
    /\ \A k \in 1..Len(sched.futures) : sched.futures[k].state # "finished"
    /\ sched' = [sched EXCEPT !.pc = "raised"]
    /\ UNCHANGED <<log, plan, graph, files, onlySched>>

\* After the loop: the next future still held is waited for and its result
\* handled.
Drain ==
    /\ sched.pc = "drain"
    /\ sched.drain <= Len(sched.futures)
    /\ LET f == sched.futures[sched.drain]
           r == drained_result(f)
           events == handle_result_events(graph, f.task, r, sched.seq)
       IN /\ graph' = handle_result_graph(graph, f.task, r)
          /\ log' = log \o events
          /\ sched' = [sched EXCEPT !.results = MapPut(@, f.task, r),
                                    !.seq = @ + Len(events),
                                    !.drain = @ + 1]
    /\ UNCHANGED <<plan, files, onlySched>>

\* Every held future was drained and the pool has shut down: return results.
ScheduleReturn ==
    /\ sched.pc = "drain"
    /\ sched.drain > Len(sched.futures)
    /\ \A k \in 1..Len(sched.futures) :
          sched.futures[k].state \in {"finished", "cancelled"}
    /\ sched' = [sched EXCEPT !.pc = "returned"]
    /\ UNCHANGED <<log, plan, graph, files, onlySched>>

\* A pool thread takes a queued future.
WorkerStart(k) ==
    /\ k \in 1..Len(sched.futures)
    /\ sched.futures[k].state = "queued"
    /\ sched' = [sched EXCEPT !.futures[k].state = "running"]
    /\ UNCHANGED <<log, plan, graph, files, onlySched>>

\* _execute_task ends: the executor wrote the task's output and returned
\* COMPLETED, or returned FAILED, or raised (the future keeps the
\* exception).
WorkerFinish(k) ==
    /\ k \in 1..Len(sched.futures)
    /\ sched.futures[k].state = "running"
    /\ \E r \in {"completed", "failed", "raise"} :
         /\ r # "completed" => sched.failed < plan.failures
         /\ sched' = [sched EXCEPT
                         !.futures[k].state = "finished",
                         !.futures[k].result = r,
                         !.failed = IF r # "completed" THEN @ + 1 ELSE @]
         /\ files' = IF r = "completed"
                     THEN store_write(files,
                                      <<"task_", sched.futures[k].task,
                                        ".result.json">>, Content)
                     ELSE files
    /\ UNCHANGED <<log, plan, graph, onlySched>>

(***************************************************************************)
(* Specifications.                                                         *)
(***************************************************************************)
\* The lines a replayed log is drawn from: every kind of event the
\* reducer knows, an unknown type, events naming a stage or a task that
\* nothing else in the log mentions, a line that is not JSON and a line of
\* JSON that is not an event.
PlanRef == ArtifactRef(<<"plan.json">>, <<1>>)

ReplayAlphabet ==
    { [Event("run.started", 0, "", 1) EXCEPT !.req = "r"],
      Event("run.completed", 0, "", 1),
      Event("run.failed", 0, "", 1),
      Event("stage.started", 0, "plan", 1),
      Event("stage.completed", 0, "plan", 1),
      Event("stage.failed", 0, "plan", 1),
      Event("stage.skipped", 0, "nosuch", 1),
      [Event("artifact.written", 0, "", 1) EXCEPT !.ref = PlanRef],
      Event("task.created", 0, "t1", 1),
      Event("task.started", 0, "t1", 1),
      [Event("task.completed", 0, "t1", 1) EXCEPT !.ref = PlanRef],
      Event("custom.unknown", 0, "", 1),
      Garbage("notjson"),
      Garbage("badshape") }

\* The logs of n events over the alphabet, the i-th carrying seq = i.
ReplayLogs(n) ==
    { [i \in 1..n |-> [f[i] EXCEPT !.seq = i]] : f \in [1..n -> ReplayAlphabet] }

ReplayInit ==
    /\ log \in UNION { ReplayLogs(n) : n \in 0..MaxReplayLen }
    /\ WriterIdle
    /\ ReplayIdle
    /\ StoreIdle
    /\ files = EmptyMap
    /\ LockIdle("posix")
    /\ MachineIdle(DEFAULT_STAGES, NoLimits)
    /\ SchedIdle(NoPlan)

NextReplay ==
    \/ \E r \in Replayers : ReconstructCall(r)
    \/ \E r \in Replayers : ReconstructStep(r)
    \/ \E r \in Replayers : ReconstructReturn(r)

SpecReplay == ReplayInit /\ [][NextReplay]_vars

(***************************************************************************)
(* Specifications of the event writer.                                     *)
(***************************************************************************)
WriterInit ==
    /\ log = <<>>
    /\ WriterIdle
    /\ ReplayIdle
    /\ StoreIdle
    /\ files = EmptyMap
    /\ LockIdle("posix")
    /\ MachineIdle(DEFAULT_STAGES, NoLimits)
    /\ SchedIdle(NoPlan)

\* One writer at a time, any number of threads on it.
NextWriter ==
    \/ \E w \in Writers : NewWriterAfterPrevious(w)
    \/ \E w \in Writers : StopWriter(w)
    \/ WriteSteps
    \/ ForeignLine

SpecWriter == WriterInit /\ [][NextWriter]_vars

\* Several writers live on the same run directory.
NextWriters ==
    \/ \E w \in Writers : NewWriterAfterPrevious(w)
    \/ \E w \in Writers : NewWriterConcurrent(w)
    \/ \E w \in Writers : StopWriter(w)
    \/ WriteSteps

SpecWriters == WriterInit /\ [][NextWriters]_vars

(***************************************************************************)
(* Specifications of the stage machine.                                    *)
(***************************************************************************)
MaxRuns == 2         \* run() calls in one behaviour
MaxFaults == 1       \* handler deviations and changed files in one behaviour

RunSteps(m) ==
    \/ RunCall(m)
    \/ AcquireOpen(m)
    \/ AcquireLocked(m)
    \/ RunReconstruct(m)
    \/ RunFromStage(m)
    \/ RunSkipBefore(m)
    \/ StageSkip(m)
    \/ StageStart(m)
    \/ StageHandler(m)
    \/ StageResult(m)
    \/ StageExcept(m)
    \/ RunFailFast(m)
    \/ RunFinish(m)
    \/ RunFinally(m)

\* Runs of the default stage list, one after the other, each on a machine
\* of its own.
RunInit ==
    /\ log = <<>>
    /\ WriterIdle
    /\ ReplayIdle
    /\ StoreIdle
    /\ files = EmptyMap
    /\ LockIdle("posix")
    /\ MachineIdle(DEFAULT_STAGES,
                   [runs |-> MaxRuns, faults |-> MaxFaults, werrs |-> 0,
                    processes |-> 1, requirements |-> {"", "a", "b"}])
    /\ SchedIdle(NoPlan)

NextRun ==
    \/ \E m \in Machines : MachineNewAlone(m)
    \/ \E m \in Machines : RunSteps(m)
    \/ Tamper

SpecRun == RunInit /\ [][NextRun]_vars

\* The log of the resume scenario: run.started and stage.completed for
\* "plan" and nothing else; no artifacts on disk.
ScenarioLog ==
    << [Event("run.started", 1, "", 0) EXCEPT !.req = "a"],
       Event("stage.completed", 2, "plan", 0) >>

\* The log a plan stage that wrote plan.json leaves, with the file on disk.
ScenarioLogRecorded ==
    << [Event("run.started", 1, "", 0) EXCEPT !.req = "a"],
       Event("stage.started", 2, "plan", 0),
       [Event("artifact.written", 3, "", 0)
          EXCEPT !.ref = ArtifactRef(<<"plan.json">>, Content)],
       Event("stage.completed", 4, "plan", 0) >>

ScenarioRuns == 1    \* run() calls on the scenario's run directory

\* A process restarts on a run directory whose plan stage completed.
ScenarioInit ==
    /\ \/ log = ScenarioLog /\ files = EmptyMap
       \/ /\ log = ScenarioLogRecorded
          /\ files = store_write(EmptyMap, <<"plan.json">>, Content)
    /\ WriterIdle
    /\ ReplayIdle
    /\ StoreIdle
    /\ LockIdle("posix")
    /\ MachineIdle(DEFAULT_STAGES,
                   [runs |-> ScenarioRuns, faults |-> MaxFaults, werrs |-> 0,
                    processes |-> 1, requirements |-> {"", "a", "b"}])
    /\ SchedIdle(NoPlan)

NextScenario ==
    \/ \E m \in Machines : MachineNewAlone(m)
    \/ \E m \in Machines : RunSteps(m)

SpecScenario == ScenarioInit /\ [][NextScenario]_vars

LockRuns == 2        \* run() calls that compete for the run lock
MaxWriteErrors == 1  \* event writes that raise in one behaviour

\* A stage list of one stage, as a caller may pass to StageMachine.
OneStage == SubSeq(DEFAULT_STAGES, 1, 1)

\* Machines on the same run directory, in one process or in two, whose
\* run() calls overlap; handlers behave, event writes may fail; owners may
\* call release().
LockInit ==
    /\ log = <<>>
    /\ files = EmptyMap
    /\ WriterIdle
    /\ ReplayIdle
    /\ StoreIdle
    /\ \E os \in {"posix", "nt"} : LockIdle(os)
    /\ MachineIdle(OneStage,
                   [runs |-> LockRuns, faults |-> 0,
                    werrs |-> MaxWriteErrors, processes |-> 2,
                    requirements |-> {"", "a"}])
    /\ SchedIdle(NoPlan)

NextLock ==
    \/ \E m \in Machines : MachineNew(m)
    \/ \E m \in Machines : RunSteps(m)
    \/ \E m \in Machines : AcquireTimeout(m)
    \/ \E m \in Machines : ExtraRelease(m)

SpecLock == LockInit /\ [][NextLock]_vars

TimeoutRuns == 2     \* run() calls where one may wait for the other's lock

\* Two machines whose run() calls overlap, with a configured lock timeout.
TimeoutInit ==
    /\ log = <<>>
    /\ files = EmptyMap
    /\ WriterIdle
    /\ ReplayIdle
    /\ StoreIdle
    /\ \E os \in {"posix", "nt"} : LockIdle(os)
    /\ MachineIdle(OneStage,
                   [runs |-> TimeoutRuns, faults |-> 0,
                    werrs |-> MaxWriteErrors, processes |-> 1,
                    requirements |-> {"a"}])
    /\ SchedIdle(NoPlan)

NextTimeout ==
    \/ \E m \in Machines : MachineNew(m)
    \/ \E m \in Machines : RunSteps(m)
    \/ \E m \in Machines : AcquireTimeout(m)

\* The steps of run() that are the orchestrator's own code: once enabled
\* they are taken.  A stage handler is foreign code and may run for any
\* length of time, so StageHandler is not among them.
OwnSteps(m) ==
    \/ AcquireOpen(m)
    \/ AcquireLocked(m)
    \/ AcquireTimeout(m)
    \/ RunReconstruct(m)
    \/ RunFromStage(m)
    \/ RunSkipBefore(m)
    \/ StageSkip(m)
    \/ StageStart(m)
    \/ StageResult(m)
    \/ StageExcept(m)
    \/ RunFailFast(m)
    \/ RunFinish(m)
    \/ RunFinally(m)

SpecTimeout ==
    /\ TimeoutInit
    /\ [][NextTimeout]_vars
    /\ \A m \in Machines : WF_vars(OwnSteps(m))

(***************************************************************************)
(* ArtifactStore on its own: writes, verifications and out-of-band changes *)
(* of the artifacts directory, in any order.                               *)
(***************************************************************************)
StoreInit ==
    /\ log = <<>>
    /\ files = EmptyMap
    /\ WriterIdle
    /\ ReplayIdle
    /\ StoreIdle
    /\ LockIdle("posix")
    /\ MachineIdle(DEFAULT_STAGES, NoLimits)
    /\ SchedIdle(NoPlan)

NextStore == StoreWrite \/ StoreVerify \/ StoreDelete \/ StoreOverwrite

SpecStore == StoreInit /\ [][NextStore]_vars

\* run() call of machine m is between acquiring and releasing the lock.
InCritical(m) == mach[m].pc \in CriticalPcs

(***************************************************************************)
(* Specification of the scheduler: one schedule() call on a new scheduler. *)
(***************************************************************************)
MaxWorkers == 2        \* largest max_workers
MaxRetries == 1        \* largest max_retries of the tasks
MaxTaskFailures == 2   \* task executions that fail in one behaviour

\* The plans: three tasks; t1 depends on nothing, on t2 (a cycle when t2
\* depends on t1) or on a task that is not in the graph; t3 on t1, t2, both
\* or nothing.
SchedPlans ==
    { [deps |-> [t \in TaskIds |-> IF t = "t1" THEN d1
                                     ELSE IF t = "t2" THEN d2 ELSE d3],
       fail_fast |-> ff, max_workers |-> w, max_retries |-> r,
       failures |-> MaxTaskFailures] :
        d1 \in {{}, {"t2"}, {"t9"}}, d2 \in {{}, {"t1"}},
        d3 \in {{}, {"t1"}, {"t2"}, {"t1", "t2"}},
        ff \in BOOLEAN, w \in 1..MaxWorkers, r \in 0..MaxRetries }

SchedInit ==
    /\ log = <<>>
    /\ files = EmptyMap
    /\ WriterIdle
    /\ ReplayIdle
    /\ StoreIdle
    /\ LockIdle("posix")
    /\ MachineIdle(DEFAULT_STAGES, NoLimits)
    /\ \E p \in SchedPlans : SchedIdle(p)

NextSched ==
    \/ ScheduleCall
    \/ SubmitReady
    \/ LoopExit
    \/ \E k \in 1..MaxWorkers : Harvest(k)
    \/ PollTimeout
    \/ Drain
    \/ ScheduleReturn
    \/ \E k \in 1..MaxWorkers : WorkerStart(k)
    \/ \E k \in 1..MaxWorkers : WorkerFinish(k)

SpecSched == SchedInit /\ [][NextSched]_vars

\* The same call where the scheduler's thread and the pool's threads keep
\* running and every execution ends: a step that stays possible is taken.
SpecSchedLive == SchedInit /\ [][NextSched]_vars /\ WF_vars(NextSched)

\* Runs of a stage list a caller passes to StageMachine: a stage that
\* declares no outputs, followed by the default plan stage.
SkipInit ==
    /\ log = <<>>
    /\ files = EmptyMap
    /\ WriterIdle
    /\ ReplayIdle
    /\ StoreIdle
    /\ LockIdle("posix")
    /\ MachineIdle(<<Stage("prepare", <<>>, <<>>)>> \o OneStage,
                   [runs |-> MaxRuns, faults |-> MaxFaults, werrs |-> 0,
                    processes |-> 1, requirements |-> {"a"}])
    /\ SchedIdle(NoPlan)

SpecSkip == SkipInit /\ [][NextRun]_vars

ResumeRuns == 3      \* run() calls on one run directory, resumes among them

\* Three successive runs of a one-stage list: a run can complete and be
\* resumed twice, or be started, resumed and resumed again.
ResumeInit ==
    /\ log = <<>>
    /\ files = EmptyMap
    /\ WriterIdle
    /\ ReplayIdle
    /\ StoreIdle
    /\ LockIdle("posix")
    /\ MachineIdle(OneStage,
                   [runs |-> ResumeRuns, faults |-> MaxFaults, werrs |-> 0,
                    processes |-> 1, requirements |-> {"", "a", "b"}])
    /\ SchedIdle(NoPlan)

SpecResume == ResumeInit /\ [][NextRun]_vars

\* Runs of the default stage list with the handlers of stages.py, one
\* after the other; files may change between the runs.
DefaultInit ==
    /\ log = <<>>
    /\ files = EmptyMap
    /\ WriterIdle
    /\ ReplayIdle
    /\ StoreIdle
    /\ LockIdle("posix")
    /\ MachineIdle(DEFAULT_STAGES,
                   [runs |-> MaxRuns, faults |-> MaxFaults, werrs |-> 0,
                    processes |-> 1, requirements |-> {"a"}])
    /\ SchedIdle(NoPlan)

NextDefault ==
    \/ \E m \in Machines : MachineNewAlone(m)
    \/ \E m \in Machines : RunCall(m)
    \/ \E m \in Machines : AcquireOpen(m)
    \/ \E m \in Machines : AcquireLocked(m)
    \/ \E m \in Machines : RunReconstruct(m)
    \/ \E m \in Machines : RunFromStage(m)
    \/ \E m \in Machines : RunSkipBefore(m)
    \/ \E m \in Machines : StageSkip(m)
    \/ \E m \in Machines : StageStart(m)
    \/ \E m \in Machines : DefaultHandler(m)
    \/ \E m \in Machines : StageResult(m)
    \/ \E m \in Machines : RunFailFast(m)
    \/ \E m \in Machines : RunFinish(m)
    \/ \E m \in Machines : RunFinally(m)
    \/ Tamper

SpecDefault == DefaultInit /\ [][NextDefault]_vars

\* Three successive runs of the plan and develop stages with their
\* stages.py handlers: a develop stage can complete, have its output
\* changed on disk, fail when executed again, and be met by a third run.
RetryInit ==
    /\ log = <<>>
    /\ files = EmptyMap
    /\ WriterIdle
    /\ ReplayIdle
    /\ StoreIdle
    /\ LockIdle("posix")
    /\ MachineIdle(SubSeq(DEFAULT_STAGES, 1, 2),
                   [runs |-> ResumeRuns, faults |-> MaxFaults, werrs |-> 0,
                    processes |-> 1, requirements |-> {"a"}])
    /\ SchedIdle(NoPlan)

SpecRetry == RetryInit /\ [][NextDefault]_vars

(***************************************************************************)
(* Everything that touches a run directory: a behaviour is one of          *)
(*   - writers and their threads, with a reader replaying the file,        *)
(*   - a StageMachine.run call on a directory with a recorded plan stage,  *)
(*   - a ParallelScheduler.schedule call.                                  *)
(***************************************************************************)
SystemInit == WriterInit \/ ScenarioInit \/ SchedInit

NextSystem ==
    \/ /\ limits.runs = 0 /\ plan = NoPlan
       /\ \/ NextWriters
          \/ ReconstructCall(1)
          \/ ReconstructStep(1)
          \/ ReconstructReturn(1)
    \/ limits.runs > 0 /\ NextScenario
    \/ plan # NoPlan /\ NextSched

SpecSystem == SystemInit /\ [][NextSystem]_vars

\* Task t depends on task a through at most n dependency edges.
RECURSIVE Reaches(_, _, _)
Reaches(t, a, n) ==
    /\ n > 0
    /\ t \in TaskIds
    /\ \/ a \in plan.deps[t]
       \/ \E d \in plan.deps[t] : Reaches(d, a, n - 1)

\* The log holds a task.started for task t.
Started(t) ==
    \E p \in 1..Len(log) : log[p].type = "task.started" /\ log[p].key = t

\* The events of type `type` that run() call number inv appended.
EventsOf(inv, type) ==
    LET Test(e) == from_json_ok(e) /\ e.by = inv /\ e.type = type
    IN SelectSeq(log, Test)

\* Call inv appended an event of that type for that stage.
EmittedIn(inv, type, name) ==
    \E p \in 1..Len(log) :
        /\ from_json_ok(log[p]) /\ log[p].by = inv
        /\ log[p].type = type /\ log[p].key = name

(***************************************************************************)
(* C1: with one writer at a time (any number of threads on it, any         *)
(* succession of writers on the same log, lines that do not parse          *)
(* included), the i-th event line of events.jsonl carries seq = i.         *)
(***************************************************************************)
SeqIsPosition ==
    LET ev == EventLines(log)
    IN \A i \in 1..Len(ev) : ev[i].seq = i

\* Two writer lifetimes, a line that does not parse between their events,
\* and both threads have written.
SeqIsPositionWitness ==
    LET ev == EventLines(log)
    IN /\ Len(ev) >= 3
       /\ \E i, j \in 1..Len(ev) : ev[i].by # ev[j].by
       /\ \E i, j, k \in 1..Len(log) :
            /\ i < j /\ j < k
            /\ from_json_ok(log[i]) /\ ~from_json_ok(log[j]) /\ from_json_ok(log[k])

(***************************************************************************)
(* C2: when two EventWriter objects are live on the same run directory and *)
(* their writes interleave, no two event lines carry the same seq and seq  *)
(* is strictly increasing in file order.                                   *)
(***************************************************************************)
SeqStrictlyIncreasing ==
    LET ev == EventLines(log)
    IN \A i, j \in 1..Len(ev) : i < j => ev[i].seq < ev[j].seq

(***************************************************************************)
(* C3: two independent calls of reconstruct on the unchanged log return    *)
(* equal RunState values, whatever events the log holds, and no step of    *)
(* reconstruct changes the log or the artifact files.                      *)
(***************************************************************************)
ReplayDeterminism ==
    /\ [](\A r1, r2 \in Replayers :
            rpc[r1] = "done" /\ rpc[r2] = "done" => rresult[r1] = rresult[r2])
    /\ [][log' = log /\ files' = files]_vars

\* Both calls have returned a state with a completed stage, an artifact and
\* a task in it, one of them on a reader that had been used before.
ReplayDeterminismWitness ==
    /\ rpc[1] = "done" /\ rpc[2] = "done"
    /\ rpos[1] = Len(log) /\ Len(log) = MaxReplayLen
    /\ rresult[1].last_event_seq = MaxReplayLen
    /\ \/ rresult[1].completed_stages # {}
       \/ DOMAIN rresult[1].artifacts # {}
       \/ DOMAIN rresult[1].tasks # {}

SkipCorrectness ==
    \A m \in Machines :
        mach[m].pc = "done" =>
            \A S \in mach[m].skippable :
                /\ EmittedIn(mach[m].inv, "stage.skipped", S)
                /\ S \notin mach[m].called
                /\ ~EmittedIn(mach[m].inv, "stage.started", S)

(***************************************************************************)
(* C5 amended: for such a stage S, run() never invokes S's handler and     *)
(* never emits stage.started for S, and it has emitted stage.skipped for S *)
(* as soon as its stage loop, starting at start_idx, has passed S's        *)
(* position.                                                               *)
(***************************************************************************)
SkipCorrectnessWhenReached ==
    \A m \in Machines :
        \A S \in mach[m].skippable :
            /\ S \notin mach[m].called
            /\ ~EmittedIn(mach[m].inv, "stage.started", S)
            /\ (mach[m].start_idx <= StageIndex(S) /\ StageIndex(S) < mach[m].i)
                  => EmittedIn(mach[m].inv, "stage.skipped", S)

\* A call that is not a resume found develop skippable, passed it in its
\* loop and went on to execute a later stage.
SkipCorrectnessWhenReachedWitness ==
    \E m \in Machines :
        /\ "develop" \in mach[m].skippable
        /\ ~mach[m].args.resume
        /\ mach[m].start_idx <= 2 /\ mach[m].i > 2
        /\ mach[m].pc = "handler"

(***************************************************************************)
(* C6 as stated: on the log holding only run.started and stage.completed   *)
(* for "plan", run(resume=True) over the default stages does not invoke    *)
(* plan's handler and its first stage.started is for develop.              *)
(***************************************************************************)
ResumesAtDevelop ==
    \A m \in Machines :
        (/\ mach[m].inv = 1 /\ mach[m].args.resume /\ mach[m].args.from_stage = ""
         /\ SubSeq(log, 1, 2) = ScenarioLog) =>
            /\ "plan" \notin mach[m].called
            /\ LET started == EventsOf(1, "stage.started")
               IN started # <<>> => started[1].key = "develop"

(***************************************************************************)
(* C6 amended: on that log reconstruct yields completed_stages = {"plan"}  *)
(* and current_stage = "", but run(resume=True) executes plan again (the   *)
(* first stage.started is for plan) because no artifact.written records    *)
(* plan.json; it resumes at develop, without invoking plan's handler, when *)
(* the log also records artifact.written for plan.json and the file on     *)
(* disk matches it.                                                        *)
(***************************************************************************)
ResumeScenario ==
    \A m \in Machines :
        (mach[m].inv = 1 /\ mach[m].args.resume /\ mach[m].args.from_stage = "") =>
            LET started == EventsOf(1, "stage.started")
                bare == SubSeq(log, 1, 2) = ScenarioLog
            IN /\ (bare /\ mach[m].pc = "from_stage") =>
                     /\ mach[m].state.completed_stages = {"plan"}
                     /\ mach[m].state.current_stage = ""
               /\ (bare /\ started # <<>>) => started[1].key = "plan"
               /\ ~bare => "plan" \notin mach[m].called
               /\ (~bare /\ started # <<>>) => started[1].key = "develop"

\* A resume on the bare log has emitted stage.started for plan and is
\* running its handler again.
ResumeScenarioWitness ==
    \E m \in Machines :
        /\ mach[m].inv = 1 /\ mach[m].args.resume /\ mach[m].args.from_stage = ""
        /\ SubSeq(log, 1, 2) = ScenarioLog
        /\ mach[m].pc = "handler"
        /\ mach[m].i = 1
        /\ mach[m].state.completed_stages = {}

(***************************************************************************)
(* C7: in the event stream of schedule() every task.started for a task T   *)
(* (restarts after task.retrying included) comes after a task.completed or *)
(* task.skipped for each dependency of T; a task with a dependency that    *)
(* failed, is not in the graph or lies on a dependency cycle has no        *)
(* task.started.                                                           *)
(***************************************************************************)
DependencyOrdering ==
    /\ \A p \in 1..Len(log) :
          log[p].type = "task.started" =>
              \A d \in plan.deps[log[p].key] :
                  \E q \in 1..(p - 1) :
                      /\ log[q].type \in {"task.completed", "task.skipped"}
                      /\ log[q].key = d
    /\ \A t \in DOMAIN graph :
          (\/ \E d \in plan.deps[t] : d \notin DOMAIN graph
           \/ \E d \in plan.deps[t] \cap DOMAIN graph : graph[d].status = "failed"
           \/ Reaches(t, t, Len(TaskList))) => ~Started(t)

\* t3, which depends on t1 and t2, was started, failed, and was started
\* again after task.retrying.
DependencyOrderingWitness ==
    /\ plan.deps["t3"] = {"t1", "t2"}
    /\ \E p, q \in 1..Len(log) :
          /\ p < q
          /\ log[p].type = "task.retrying" /\ log[p].key = "t3"
          /\ log[q].type = "task.started" /\ log[q].key = "t3"

(***************************************************************************)
(* C8: with fail_fast = true, when schedule() has returned and the         *)
(* execution of a task A failed, every task that depends on A, directly or *)
(* through other tasks, has status cancelled and no task.started.          *)
(***************************************************************************)
FailFastCancelsDependents ==
    (sched.pc = "returned" /\ plan.fail_fast) =>
        \A a \in DOMAIN sched.results :
            sched.results[a] = "failed" =>
                \A t \in TaskIds :
                    Reaches(t, a, Len(TaskList)) =>
                        graph[t].status = "cancelled" /\ ~Started(t)

(***************************************************************************)
(* C9: for one run directory, at most one run() call, of machines in the   *)
(* same process or in different processes, is between its lock             *)
(* acquisition and its lock release, and in the log the events of one call *)
(* are never separated by an event of another call.                        *)
(***************************************************************************)
RunMutualExclusion ==
    /\ \A m1, m2 \in Machines :
          InCritical(m1) /\ InCritical(m2) => m1 = m2
    /\ \A m \in Machines : InCritical(m) => flock = m
    /\ \A i, j, k \in 1..Len(log) :
          (i < j /\ j < k /\ log[i].by = log[k].by) => log[j].by = log[i].by

\* A machine waits for the lock while a machine of the same process is
\* running a handler, after an earlier call has left its events in the log.
RunMutualExclusionWitness ==
    \E m1, m2 \in Machines :
        /\ mach[m1].pc = "waiting" /\ mach[m2].pc = "handler"
        /\ mach[m1].process = mach[m2].process
        /\ Len(log) > 0

(***************************************************************************)
(* C10: whenever a run() call is over, by whichever path it left (return,  *)
(* resume no-op, fail-fast return, ValueError, a failed event write), its  *)
(* machine does not hold the run lock; and a holder loses the lock only by *)
(* the release in its own finally block: a release() by anyone else, or a  *)
(* repeated one, leaves the lock where it is.                              *)
(***************************************************************************)
LockReleasedOnExit ==
    /\ [](\A m \in Machines : ~Running(m) => flock # m)
    /\ [][\A h \in Machines :
            (flock = h /\ flock' # h) =>
                (mach[h].pc = "finally" /\ mach'[h].pc = "done" /\ flock' = NoHolder)]_vars

\* A call that left through a failed event write is over and its descriptor
\* closed, while another machine, leaving through ValueError, still holds
\* the lock.
LockReleasedOnExitWitness ==
    \E m1, m2 \in Machines :
        /\ mach[m1].pc = "done" /\ mach[m1].outcome = "OSError"
        /\ fd[m1] = "none"
        /\ flock = m2 /\ mach[m2].pc = "finally"
        /\ mach[m2].outcome = "ValueError"

(***************************************************************************)
(* C11: a run() call that waits for a run lock held by another holder does *)
(* not wait for ever: it leaves acquire, by getting the lock or, when the  *)
(* lock stays held, by the lock-timeout error (TimeoutError, no event      *)
(* appended).                                                              *)
(***************************************************************************)
AcquireTimesOut ==
    \A m \in Machines :
        (mach[m].pc = "waiting") ~> (mach[m].pc # "waiting")

(***************************************************************************)
(* C12  Artifact round-trip: for every name (flat, nested, containing the  *)
(* text "artifacts/") and every content, verify of the ref that write has  *)
(* just returned is true.                                                  *)
(***************************************************************************)
WriteThenVerify ==
    (store.verified /\ store.fresh) => store.ok

(***************************************************************************)
(* C13  Staleness detection: verify(ref) is true exactly when the file the *)
(* ref names (ref.ref under the run directory, which is the name write was *)
(* given under artifacts/) exists and has the ref's hash and size; so it   *)
(* is false after the file was deleted, truncated, modified or rewritten   *)
(* with other content.                                                     *)
(***************************************************************************)
VerifyDetectsStaleness ==
    store.verified =>
        LET name == Tail(store.ref.ref)
        IN store.ok <=> /\ name \in DOMAIN files
                        /\ hexdigest(files[name]) = store.ref.sha256
                        /\ Len(files[name]) = store.ref.size

(***************************************************************************)
(* C14  Handler misbehaviour never crashes the orchestrator: after a stage *)
(* handler raised or returned a malformed result, run() has emitted        *)
(* stage.failed with the message and holds the stage in its failed set,    *)
(* and it returns normally; after a task executor raised, schedule()       *)
(* returns normally and has emitted task.retrying or task.failed for the   *)
(* task.                                                                   *)
(***************************************************************************)
HandlerFailuresContained ==
    /\ \A m \in Machines :
         LET rec == mach[m]
             misbehaved == \/ rec.error = "handler raised" /\ rec.pc # "except"
                           \/ rec.result = "skipped" /\ rec.pc # "result"
         IN misbehaved =>
              /\ rec.pc = "done" => rec.outcome = "returned"
              /\ \E p \in 1..Len(log) :
                   /\ log[p].type = "stage.failed"
                   /\ log[p].by = rec.inv
                   /\ rec.result = "failed" => log[p].info = rec.error
                   /\ log[p].key \in rec.state.failed_stages
    /\ \A k \in 1..Len(sched.futures) :
         (sched.pc \in {"returned", "raised"}
            /\ sched.futures[k].result = "raise") =>
              /\ sched.pc = "returned"
              /\ \E p \in 1..Len(log) :
                   /\ log[p].type \in {"task.retrying", "task.failed"}
                   /\ log[p].key = sched.futures[k].task

(***************************************************************************)
(* C15  Append-only log: every step of a writer, of StageMachine.run, of   *)
(* ParallelScheduler.schedule and of a reader or reconstruct leaves the    *)
(* lines already in events.jsonl unchanged and in place: the file before   *)
(* the step is a prefix of the file after it.                              *)
(***************************************************************************)
AppendOnlyLog ==
    [][/\ Len(log') >= Len(log)
       /\ SubSeq(log', 1, Len(log)) = log]_vars

\* Two writers have appended to the file and a reconstruct has read it.
AppendOnlyLogWitness ==
    /\ Len(log) >= 3
    /\ \E p, q \in 1..Len(log) : log[p].by # log[q].by
    /\ rpc[1] = "done"
    /\ rresult[1].last_event_seq > 0

(***************************************************************************)
(* C16  Lenient replay: whatever the lines of events.jsonl are, a replay   *)
(* of the file never raises, and what it returns is the replay of exactly  *)
(* the well-formed event lines in file order: lines that are not JSON and  *)
(* lines of JSON that are not an event are skipped.                        *)
(***************************************************************************)
LenientReplay ==
    \A r \in Replayers :
        /\ rpc[r] # "raised"
        /\ rpc[r] = "done" => rresult[r] = reconstruct(EventLines(log))

(***************************************************************************)
(* C17  The log is the sole source of truth: at the moment run() returns a *)
(* RunState, reconstruct over the log gives the same status and the same   *)
(* completed, failed and skipped stage sets as the returned state.         *)
(***************************************************************************)
ReturnedStateIsReplay ==
    \A m \in Machines :
        (mach[m].pc = "finally" /\ mach[m].outcome = "returned") =>
            LET replayed == reconstruct(log)
                returned == mach[m].state
            IN /\ returned.status = replayed.status
               /\ returned.completed_stages = replayed.completed_stages
               /\ returned.failed_stages = replayed.failed_stages
               /\ returned.skipped_stages = replayed.skipped_stages

(***************************************************************************)
(* C18  can_skip(stage, store) is true if and only if the stage is in the  *)
(* completed set, every declared output name is a key of the artifact map  *)
(* and each such ref verifies against the store: whenever the stage loop   *)
(* of run() decides about a stage, it emits stage.skipped (can_skip held)  *)
(* exactly in that case.  So a stage that is only in the skipped set, or   *)
(* whose recorded output is gone or changed, is executed, and a completed  *)
(* stage without declared outputs is skipped.                              *)
(***************************************************************************)
CanSkipExactly ==
    [][\A m \in Machines :
         (mach[m].pc = "loop" /\ mach'[m] # mach[m]) =>
            LET stage == stages[mach[m].i]
                state == mach[m].state
                skipped == /\ Len(log') = Len(log) + 1
                           /\ log'[Len(log')].type = "stage.skipped"
                           /\ log'[Len(log')].key = stage.name
                started == /\ Len(log') = Len(log) + 1
                           /\ log'[Len(log')].type = "stage.started"
                           /\ log'[Len(log')].key = stage.name
                verified == \A o \in Range(stage.outputs) :
                               /\ o \in DOMAIN state.artifacts
                               /\ verify(files, state.artifacts[o])
            IN /\ skipped <=> (stage.name \in state.completed_stages /\ verified)
               /\ started <=> ~skipped
               /\ (stage.name \in state.skipped_stages \ state.completed_stages)
                     => started
               /\ (stage.name \in state.completed_stages /\ stage.outputs = <<>>)
                     => skipped]_vars

\* A run skipped the completed stage that declares no outputs and executed
\* the plan stage again, which was completed but whose plan.json was never
\* recorded or no longer verifies.
CanSkipExactlyWitness ==
    \E p, q \in 1..Len(log) :
        /\ log[p].type = "stage.skipped" /\ log[p].key = "prepare"
        /\ log[p].info = "verified"
        /\ log[q].type = "stage.started" /\ log[q].key = "plan"
        /\ log[q].by = log[p].by /\ q > p
        /\ \E c \in 1..(p - 1) :
              log[c].type = "stage.completed" /\ log[c].key = "plan"
        /\ used.faults = 1

(***************************************************************************)
(* C19  Concurrency bound: in every state of schedule() the tasks in       *)
(* status running, and the futures submitted and not yet harvested, are    *)
(* at most max_workers, whatever the task graph and the completions,       *)
(* failures and retries.                                                   *)
(***************************************************************************)
ConcurrencyBound ==
    /\ Cardinality({t \in DOMAIN graph : graph[t].status = "running"})
          <= plan.max_workers
    /\ Len(sched.futures) <= plan.max_workers
    /\ \A t \in DOMAIN graph :
          graph[t].status = "running" =>
              \E k \in 1..Len(sched.futures) : sched.futures[k].task = t

\* max_workers tasks are running, one of them on a retry, while a third
\* task is ready and waits for room.
ConcurrencyBoundWitness ==
    /\ plan.max_workers = MaxWorkers
    /\ Cardinality({t \in DOMAIN graph : graph[t].status = "running"}) = MaxWorkers
    /\ \E t \in DOMAIN graph : graph[t].status = "running" /\ graph[t].retry_count > 0
    /\ get_ready_tasks(graph) # <<>>

(***************************************************************************)
(* C20  Integrate guard: in a run over the default handlers with           *)
(* fail_fast = false in which verify failed and wrote verify_result.json   *)
(* with overall_success = false, the integrate handler, having that        *)
(* artifact among its inputs, returns failed with the error "Cannot        *)
(* integrate: verification failed", writes no integration_result.json and  *)
(* emits no artifact.written for it.                                       *)
(***************************************************************************)
IntegrateGuard ==
    \A m \in Machines :
        LET rec == mach[m]
            written == {p \in 1..Len(log) :
                          IsArtifactOf(log[p], <<"integration_result.json">>)}
        IN (/\ ~rec.fail_fast
            /\ EmittedIn(rec.inv, "stage.failed", "verify")
            /\ "verify" \in rec.called
            /\ "integrate" \in rec.called) =>
              /\ rec.result = "failed"
              /\ rec.error = "Cannot integrate: verification failed"
              /\ \A p \in written : log[p].by # rec.inv
              /\ written = {} => <<"integration_result.json">> \notin DOMAIN files
              /\ rec.pc \in {"finish", "finally", "done"} =>
                    /\ EmittedIn(rec.inv, "stage.failed", "integrate")
                    /\ "integrate" \in rec.state.failed_stages

\* A run without fail_fast executed plan and develop, its verify failed,
\* its integrate handler was invoked with verify_result.json among its
\* inputs, and the run has returned.
IntegrateGuardWitness ==
    \E m \in Machines :
        /\ ~mach[m].fail_fast
        /\ mach[m].called = {"plan", "develop", "verify", "integrate"}
        /\ EmittedIn(mach[m].inv, "stage.failed", "verify")
        /\ <<"verify_result.json">> \in DOMAIN mach[m].state.artifacts
        /\ files[<<"verify_result.json">>] = <<0>>
        /\ mach[m].pc = "done"

(***************************************************************************)
(* C21  Fail-fast fires only on terminal failure: with fail_fast = true    *)
(* the stop flag is set only when a task.failed was emitted; and when      *)
(* schedule() has returned, every task.retrying for a task is followed by  *)
(* a task.started for it (the task was executed again).                    *)
(***************************************************************************)
FailFastOnlyTerminal ==
    /\ (plan.fail_fast /\ sched.should_stop) =>
          \E p \in 1..Len(log) : log[p].type = "task.failed"
    /\ (plan.fail_fast /\ sched.pc = "returned") =>
          \A p \in 1..Len(log) :
              log[p].type = "task.retrying" =>
                  \E q \in (p + 1)..Len(log) :
                      log[q].type = "task.started" /\ log[q].key = log[p].key

(***************************************************************************)
(* C22  Discarded in-flight results: once fail-fast has triggered (the     *)
(* stop flag is set), for every task whose future schedule() still holds   *)
(* (submitted or executing at the trigger) no step appends a               *)
(* task.completed, task.failed, task.retrying or artifact.written for it,  *)
(* and its status stays cancelled.                                         *)
(***************************************************************************)
DiscardedInFlight ==
    [][(plan.fail_fast /\ sched.should_stop) =>
          \A k \in 1..Len(sched.futures) :
              LET t == sched.futures[k].task
              IN /\ graph'[t].status = "cancelled"
                 /\ \A p \in (Len(log) + 1)..Len(log') :
                       /\ ~(/\ log'[p].type \in {"task.completed", "task.failed",
                                                 "task.retrying"}
                            /\ log'[p].key = t)
                       /\ ~(/\ log'[p].type = "artifact.written"
                            /\ log'[p].ref = TaskOutput(t))]_vars

(***************************************************************************)
(* C23  Waiting for completion: schedule() never ends with an error        *)
(* because no task finished within the poll interval, and when it has      *)
(* returned every task.started is followed by a task.completed,            *)
(* task.failed or task.retrying for the same task.                         *)
(***************************************************************************)
WaitsForCompletion ==
    /\ sched.pc # "raised"
    /\ sched.pc = "returned" =>
          \A p \in 1..Len(log) :
              log[p].type = "task.started" =>
                  \E q \in (p + 1)..Len(log) :
                      /\ log[q].type \in {"task.completed", "task.failed",
                                          "task.retrying"}
                      /\ log[q].key = log[p].key

\* The positions of log l that hold an event of that type for task t.
TaskEvents(l, type, t) ==
    {p \in 1..Len(l) : l[p].type = type /\ l[p].key = t}

(***************************************************************************)
(* C24  Bounded retry: within one schedule() call a task has at most       *)
(* max_retries + 1 task.started and at most one task.failed, and is not    *)
(* started after its task.failed.  Each step that handles the result of a  *)
(* failed execution of a task emits exactly one event for it: with         *)
(* retry_count < max_retries it is task.retrying, retry_count grows by one *)
(* and the task is pending again; with retry_count = max_retries it is     *)
(* task.failed and the task is failed.  task.retrying and task.failed are  *)
(* emitted under these conditions only.                                    *)
(***************************************************************************)
BoundedRetry ==
    [][\A t \in TaskIds :
         LET new == {p \in (Len(log) + 1)..Len(log') : log'[p].key = t}
             typesNew == {log'[p].type : p \in new}
             held == {k \in 1..Len(sched.futures) : sched.futures[k].task = t}
             taken == IF sched.pc = "wait"
                      THEN {k \in held : sched'.pc = "loop"
                                /\ \A j \in 1..Len(sched'.futures) :
                                      sched'.futures[j].task # t}
                      ELSE IF sched.pc = "drain" /\ sched'.drain = sched.drain + 1
                      THEN {k \in held : k = sched.drain}
                      ELSE {}
             failedAttempt == \E k \in taken :
                                 /\ sched.futures[k].state = "finished"
                                 /\ sched.futures[k].result \in {"failed", "raise"}
         IN /\ Cardinality(TaskEvents(log', "task.started", t))
                  <= plan.max_retries + 1
            /\ Cardinality(TaskEvents(log', "task.failed", t)) <= 1
            /\ "task.started" \in typesNew =>
                  TaskEvents(log, "task.failed", t) = {}
            /\ "task.retrying" \in typesNew =>
                  /\ graph[t].retry_count < plan.max_retries
                  /\ graph'[t].retry_count = graph[t].retry_count + 1
                  /\ graph'[t].status = "pending"
            /\ "task.failed" \in typesNew =>
                  /\ graph[t].retry_count = plan.max_retries
                  /\ graph'[t].retry_count = graph[t].retry_count
                  /\ graph'[t].status = "failed"
            /\ failedAttempt =>
                  /\ Cardinality(new) = 1
                  /\ typesNew = IF graph[t].retry_count < plan.max_retries
                                THEN {"task.retrying"} ELSE {"task.failed"}]_vars

\* A task was started, failed, was retried and started again, failed again
\* and was marked failed: max_retries + 1 executions with max_retries = 1.
BoundedRetryWitness ==
    /\ plan.max_retries = 1
    /\ \E t \in DOMAIN graph :
          /\ graph[t].status = "failed" /\ graph[t].retry_count = 1
          /\ Cardinality(TaskEvents(log, "task.started", t)) = 2
          /\ Cardinality(TaskEvents(log, "task.retrying", t)) = 1
          /\ Cardinality(TaskEvents(log, "task.failed", t)) = 1

(***************************************************************************)
(* C25  Scheduler termination: for every task set (tasks whose             *)
(* dependencies failed, are not in the graph or form a cycle included),    *)
(* with fail_fast true or false, when every execution ends, schedule()     *)
(* eventually returns.                                                     *)
(***************************************************************************)
ScheduleReturns == <>(sched.pc = "returned")

\* The positions of the log that run() call number inv appended.
AppendedBy(inv) ==
    {p \in 1..Len(log) : from_json_ok(log[p]) /\ log[p].by = inv}

(***************************************************************************)
(* C26  Stage fail-fast: on a machine with fail_fast = true, once a run()  *)
(* call has emitted stage.failed for a stage (its handler returned failed  *)
(* or raised), the only event the call appends after it is one run.failed  *)
(* naming that stage: no stage.started, stage.skipped or run.completed     *)
(* follows; and when the call has ended it has emitted run.failed as its   *)
(* last event and returned a state with status failed.                     *)
(***************************************************************************)
StageFailFast ==
    \A m \in Machines :
        LET rec == mach[m]
            mine == AppendedBy(rec.inv)
            failedAt == {p \in mine : log[p].type = "stage.failed"}
        IN (rec.fail_fast /\ rec.inv > 0 /\ failedAt # {}) =>
              /\ Cardinality(failedAt) = 1
              /\ \A p \in failedAt : \A q \in mine :
                    q > p => /\ log[q].type = "run.failed"
                             /\ log[q].key = log[p].key
                             /\ q = p + 1
              /\ rec.pc \in {"finally", "done"} =>
                    /\ \E q \in mine : /\ log[q].type = "run.failed"
                                       /\ \A o \in mine : o <= q
                    /\ rec.outcome = "returned"
                    /\ rec.state.status = "failed"

\* A fail-fast call executed plan, its develop handler failed, and the call
\* has returned after run.failed; verify and integrate were not touched.
StageFailFastWitness ==
    \E m \in Machines :
        /\ mach[m].fail_fast /\ mach[m].pc = "done"
        /\ mach[m].called = {"plan", "develop"}
        /\ EmittedIn(mach[m].inv, "stage.completed", "plan")
        /\ EmittedIn(mach[m].inv, "stage.failed", "develop")
        /\ EmittedIn(mach[m].inv, "run.failed", "develop")

\* Every declared stage is in the completed or the skipped set of state.
AllStagesDone(state) ==
    StageNames \subseteq (state.completed_stages \cup state.skipped_stages)

\* The stage loop of the call ran to its end (no fail-fast return, no raise).
RanToEnd(rec) == rec.i > Len(stages)

(***************************************************************************)
(* C27 as stated: a run() call that has ended emitted run.completed, and   *)
(* returned a state with status completed, exactly when its stage loop ran *)
(* to the end and every declared stage was then completed or skipped; in   *)
(* every other case it did neither.                                        *)
(***************************************************************************)
RunCompletion ==
    \A m \in Machines :
        LET rec == mach[m]
            whole == RanToEnd(rec) /\ AllStagesDone(rec.state)
        IN (rec.pc \in {"finally", "done"} /\ rec.inv > 0) =>
              /\ EmittedIn(rec.inv, "run.completed", "") <=> whole
              /\ (rec.outcome = "returned" /\ rec.state.status = "completed")
                    <=> whole

(***************************************************************************)
(* C27 amended: a run() call that has ended emitted run.completed exactly  *)
(* when its stage loop ran to the end and every declared stage was then    *)
(* completed or skipped; it returned status completed in that case and in  *)
(* one other: a resume that found the run already completed, which returns *)
(* the reconstructed state and appends nothing.                            *)
(***************************************************************************)
RunCompletionOrResumed ==
    \A m \in Machines :
        LET rec == mach[m]
            whole == RanToEnd(rec) /\ AllStagesDone(rec.state)
            resumed == /\ rec.args.resume
                       /\ rec.outcome = "returned"
                       /\ AppendedBy(rec.inv) = {}
                       /\ rec.called = {}
        IN (rec.pc \in {"finally", "done"} /\ rec.inv > 0) =>
              /\ EmittedIn(rec.inv, "run.completed", "") <=> whole
              /\ (rec.outcome = "returned" /\ rec.state.status = "completed")
                    <=> (whole \/ (resumed /\ ~RanToEnd(rec)))
              /\ whole => rec.outcome = "returned"

\* The first call ran every stage and emitted run.completed; the second, a
\* resume, has returned status completed without appending an event.
RunCompletionOrResumedWitness ==
    \E m \in Machines :
        /\ mach[m].pc = "done" /\ mach[m].inv = 2 /\ mach[m].args.resume
        /\ mach[m].outcome = "returned" /\ mach[m].state.status = "completed"
        /\ AppendedBy(2) = {}
        /\ EmittedIn(1, "run.completed", "")
        /\ EmittedIn(1, "stage.completed", "integrate")

\* The lines of the log that calls before call number inv appended: the
\* log that call found (calls on one directory follow one another).
LogBefore(inv) ==
    LET Test(e) == from_json_ok(e) /\ e.by < inv
    IN SelectSeq(log, Test)

\* Machine m is in, or has ended, a run(resume=True) call that found the
\* reconstructed status completed.
ResumedCompleted(m) ==
    /\ mach[m].inv > 0
    /\ mach[m].args.resume
    /\ mach[m].pc \in (CriticalPcs \cup {"done"})
    /\ reconstruct(LogBefore(mach[m].inv)).status = "completed"

(***************************************************************************)
(* C28  Resume of a completed run is a no-op: a run(resume=True) call that *)
(* finds the reconstructed status completed, whatever its requirement and  *)
(* from_stage, appends no event, invokes no handler, returns the           *)
(* reconstructed state, and no step of it changes the log or a file; so    *)
(* the log stays the same however often the call is repeated.              *)
(***************************************************************************)
ResumeCompletedNoOp ==
    /\ [](\A m \in Machines :
            ResumedCompleted(m) =>
               /\ AppendedBy(mach[m].inv) = {}
               /\ mach[m].called = {}
               /\ mach[m].pc # "locked" =>
                     /\ mach[m].pc \in {"finally", "done"}
                     /\ mach[m].outcome = "returned"
                     /\ mach[m].state = reconstruct(LogBefore(mach[m].inv)))
    /\ [][\A m \in Machines :
            (ResumedCompleted(m) /\ mach[m].pc # "done") =>
                log' = log /\ files' = files]_vars

\* The first call completed the run; the second and the third call, both
\* resumes (one with another requirement and an unknown from_stage), have
\* returned, and the log still ends with the first call's run.completed.
ResumeCompletedNoOpWitness ==
    \E m, o \in Machines :
        /\ mach[m].inv = 2 /\ mach[o].inv = 3
        /\ mach[m].args.resume /\ mach[o].args.resume
        /\ mach[m].pc = "done" /\ mach[o].pc = "done"
        /\ mach[m].outcome = "returned" /\ mach[o].outcome = "returned"
        /\ mach[o].args.requirement = "b" /\ mach[o].args.from_stage = "nosuch"
        /\ Len(log) > 0
        /\ log[Len(log)].type = "run.completed" /\ log[Len(log)].by = 1
        /\ log[1].req = "a"

(***************************************************************************)
(* C29  Requirement on resume: in a run(resume=True) call that goes on     *)
(* (the reconstructed status is not completed), the handlers' context      *)
(* carries the requirement the caller supplied when it supplied one, and   *)
(* the recorded requirement when it did not; when neither is available     *)
(* the call raises ValueError and appends no event.                        *)
(***************************************************************************)
RequirementOnResume ==
    \A m \in Machines :
        LET rec == mach[m]
            found == reconstruct(LogBefore(rec.inv))
            given == rec.args.requirement
        IN (/\ rec.inv > 0 /\ rec.args.resume
            /\ rec.pc \in ((CriticalPcs \ {"locked"}) \cup {"done"})
            /\ found.status # "completed") =>
              /\ (given = "" /\ found.requirement = "") =>
                    /\ rec.outcome = "ValueError"
                    /\ AppendedBy(rec.inv) = {}
              /\ (given # "" /\ rec.pc = "handler") => rec.requirement = given
              /\ (given = "" /\ found.requirement # "" /\ rec.pc = "handler") =>
                    rec.requirement = found.requirement

(***************************************************************************)
(* C30  from_stage override: in a run() call whose from_stage names the    *)
(* stage at position k and which got to its stages, each stage before k    *)
(* that the reconstructed state has neither completed nor skipped gets     *)
(* exactly one event from the call, a stage.skipped with the reason        *)
(* "from_stage", each stage before k that is already done gets none, no    *)
(* handler of a stage before k is invoked, and the call then decides       *)
(* about the stages k, k+1, ... in declared order (stage.started, or       *)
(* stage.skipped after verification), one decision per stage, all of them  *)
(* when the loop runs to its end.                                          *)
(***************************************************************************)
FromStageOverride ==
    \A m \in Machines :
        LET rec == mach[m]
            f == rec.args.from_stage
            k == CHOOSE j \in 1..Len(stages) : stages[j].name = f
            found == reconstruct(LogBefore(rec.inv))
            mine == AppendedBy(rec.inv)
            entered ==
                \/ rec.pc \in {"skip_before", "loop", "handler", "result",
                               "except", "failfast", "finish"}
                \/ /\ rec.pc \in {"finally", "done"}
                   /\ rec.outcome = "returned"
                   /\ ~(rec.args.resume /\ found.status = "completed")
            forStage(j) == {p \in mine : log[p].key = stages[j].name}
            skips == {p \in mine : /\ log[p].type = "stage.skipped"
                                   /\ log[p].info = "from_stage"}
            IsDecision(e) ==
                /\ from_json_ok(e) /\ e.by = rec.inv
                /\ \/ e.type = "stage.started"
                   \/ e.type = "stage.skipped" /\ e.info = "verified"
            decisions == SelectSeq(log, IsDecision)
        IN (rec.inv > 0 /\ f \in StageNames /\ entered) =>
              /\ \A j \in 1..(k - 1) :
                    /\ stages[j].name \notin rec.called
                    /\ IF stages[j].name \in
                            (found.completed_stages \cup found.skipped_stages)
                       THEN forStage(j) = {}
                       ELSE /\ forStage(j) \subseteq skips
                            /\ Cardinality(forStage(j)) <= 1
                            /\ rec.pc # "skip_before" =>
                                  Cardinality(forStage(j)) = 1
              /\ \A p \in skips : \E j \in 1..(k - 1) : log[p].key = stages[j].name
              /\ \A p, q \in skips :
                    p < q => \E i, j \in 1..(k - 1) :
                                /\ i < j
                                /\ log[p].key = stages[i].name
                                /\ log[q].key = stages[j].name
              /\ \A n \in 1..Len(decisions) :
                    /\ k + n - 1 <= Len(stages)
                    /\ decisions[n].key = stages[k + n - 1].name
                    /\ \A p \in skips : log[p].seq < decisions[n].seq
              /\ rec.called \subseteq {decisions[n].key : n \in 1..Len(decisions)}
              /\ RanToEnd(rec) => Len(decisions) = Len(stages) - k + 1

\* The first call completed plan and failed at develop; the second, with
\* from_stage = "verify", emitted nothing for plan, one stage.skipped for
\* develop, executed verify and integrate and has returned.
FromStageOverrideWitness ==
    \E m \in Machines :
        /\ mach[m].inv = 2 /\ mach[m].pc = "done"
        /\ mach[m].args.from_stage = "verify"
        /\ EmittedIn(1, "stage.completed", "plan")
        /\ ~EmittedIn(1, "stage.completed", "develop")
        /\ ~EmittedIn(1, "stage.skipped", "develop")
        /\ EmittedIn(2, "stage.skipped", "develop")
        /\ \A p \in AppendedBy(2) : log[p].key # "plan"
        /\ mach[m].called = {"verify", "integrate"}

(***************************************************************************)
(* C31  Dirty resume forces re-execution: when the stage loop of run()     *)
(* reaches a stage that the reconstructed state holds as completed while   *)
(* one of its declared outputs is not in the artifact map, is missing on   *)
(* disk or fails verification, it emits stage.started for it and not       *)
(* stage.skipped; and when the call returns, the stage counts as done, in  *)
(* the returned state and in the state the log gives by replay, only if    *)
(* this execution ended with stage.completed.                              *)
(***************************************************************************)
DirtyResumeReexecutes ==
    /\ [][\A m \in Machines :
            LET stage == stages[mach[m].i]
                state == mach[m].state
                dirty == /\ stage.name \in state.completed_stages
                         /\ \E o \in Range(stage.outputs) :
                               IF o \in DOMAIN state.artifacts
                               THEN ~verify(files, state.artifacts[o])
                               ELSE TRUE
            IN (mach[m].pc = "loop" /\ mach'[m] # mach[m] /\ dirty) =>
                  /\ Len(log') = Len(log) + 1
                  /\ log'[Len(log')].type = "stage.started"
                  /\ log'[Len(log')].key = stage.name
                  /\ mach'[m].pc = "handler"]_vars
    /\ [](\A m \in Machines :
            (mach[m].pc = "finally" /\ mach[m].outcome = "returned") =>
               \A S \in reconstruct(LogBefore(mach[m].inv)).completed_stages :
                  (/\ EmittedIn(mach[m].inv, "stage.started", S)
                   /\ ~EmittedIn(mach[m].inv, "stage.completed", S)) =>
                     /\ ~is_stage_done(mach[m].state, S)
                     /\ ~is_stage_done(reconstruct(log), S))

\* The outcome events (stage.completed, stage.failed, stage.skipped) that
\* the lines l hold for stage S, as positions of l.
OutcomesOf(l, S) ==
    {p \in 1..Len(l) :
        /\ from_json_ok(l[p]) /\ l[p].key = S
        /\ l[p].type \in {"stage.completed", "stage.failed", "stage.skipped"}}

\* The most recent outcome event that the lines l hold for stage S ("" when
\* they hold none).
LastOutcome(l, S) ==
    IF OutcomesOf(l, S) = {} THEN ""
    ELSE LET last == CHOOSE p \in OutcomesOf(l, S) :
                         \A q \in OutcomesOf(l, S) : q <= p
         IN l[last].type

(***************************************************************************)
(* C32  Failed stages are retried on resume: when the stage loop of a      *)
(* run(resume=True) call without from_stage reaches a stage whose most     *)
(* recent outcome in the log the call found is stage.failed, it emits      *)
(* stage.started for it (the handler is invoked next) and not              *)
(* stage.skipped.                                                          *)
(***************************************************************************)
FailedStagesRetried ==
    [][\A m \in Machines :
         LET stage == stages[mach[m].i]
         IN (/\ mach[m].pc = "loop" /\ mach'[m] # mach[m]
             /\ mach[m].args.resume /\ mach[m].args.from_stage = ""
             /\ LastOutcome(LogBefore(mach[m].inv), stage.name) = "stage.failed") =>
               /\ Len(log') = Len(log) + 1
               /\ log'[Len(log')].type = "stage.started"
               /\ log'[Len(log')].key = stage.name
               /\ mach'[m].pc = "handler"]_vars


(***************************************************************************)
(* C33  Task projection by replay: after reconstruct, every task id that   *)
(* appears in a task.created, task.started, task.completed, task.failed or *)
(* task.skipped event of the log has an entry in the task map, and its     *)
(* status is the one the last such event sets (pending, running,           *)
(* completed, failed, skipped), also when the log holds no task.created    *)
(* for the id.                                                             *)
(***************************************************************************)
TaskStatusOf(type) ==
    CASE type = "task.created" -> "pending"
      [] type = "task.started" -> "running"
      [] type = "task.completed" -> "completed"
      [] type = "task.failed" -> "failed"
      [] type = "task.skipped" -> "skipped"

TaskEventTypes ==
    {"task.created", "task.started", "task.completed", "task.failed",
     "task.skipped"}

\* The positions of the log's task events for task t.
TaskEventsFor(t) ==
    {p \in 1..Len(log) :
        from_json_ok(log[p]) /\ log[p].type \in TaskEventTypes
                             /\ log[p].key = t}

TaskProjectionByReplay ==
    \A r \in Replayers :
        rpc[r] = "done" =>
            \A p \in 1..Len(log) :
                (from_json_ok(log[p]) /\ log[p].type \in TaskEventTypes) =>
                    LET t == log[p].key
                        last == CHOOSE q \in TaskEventsFor(t) :
                                    \A u \in TaskEventsFor(t) : u <= q
                    IN /\ t \in DOMAIN rresult[r].tasks
                       /\ rresult[r].tasks[t].status =
                              TaskStatusOf(log[last].type)


(***************************************************************************)
(* Redaction (events.py sanitize_value, is_sensitive_key, sanitize_dict,   *)
(* sanitize_event) and EventWriter.write on a sanitizing writer.  A value  *)
(* of event data is a str, a dict, a list, a tuple or an object json.dumps *)
(* rejects (a set); a dict is a function from its keys to values, a list   *)
(* or a tuple a sequence of values.                                        *)
(***************************************************************************)
SanDepth == 2        \* nesting depth of the values under a top-level key
MaxSanSeq == 2       \* write() calls on one sanitizing writer

SENSITIVE_KEYS ==
    {"api_key", "apikey", "api-key", "api_token",
     "secret", "secret_key", "secretkey", "secret_token",
     "password", "passwd", "pwd",
     "token", "access_token", "refresh_token", "bearer_token", "auth_token",
     "credential", "credentials",
     "auth", "auth_key", "authorization",
     "private_key", "privatekey"}

SAFE_KEYS ==
    {"token_usage", "prompt_tokens", "completion_tokens", "total_tokens",
     "token_count", "tokens"}

\* The keys event data is built from, and str.lower() on them.
DataKeys == {"password", "Password", "tokens", "name"}
lower(key) == IF key = "Password" THEN "password" ELSE key

Val(kind, v) == [kind |-> kind, v |-> v]
REDACTED == Val("str", "[REDACTED]")

\* The values of nesting depth at most d.
RECURSIVE Values(_)
Values(d) ==
    IF d = 0 THEN {Val("str", "s"), Val("set", "s")}
    ELSE LET inner == Values(d - 1)
         IN inner
            \cup {Val("dict", [x \in {k} |-> v]) : k \in DataKeys, v \in inner}
            \cup {Val("list", <<v>>) : v \in inner}
            \cup {Val("tuple", <<v>>) : v \in inner}

\* The data of an event: one keyword argument of emit().
EventData == {[x \in {k} |-> v] : k \in DataKeys, v \in Values(SanDepth)}

is_sensitive_key(key) ==
    IF lower(key) \in SAFE_KEYS THEN FALSE ELSE lower(key) \in SENSITIVE_KEYS

RECURSIVE sanitize_value(_), sanitize_dict(_)
sanitize_value(value) ==
    CASE value.kind = "str" -> value
      [] value.kind = "dict" -> Val("dict", sanitize_dict(value.v))
      [] value.kind = "list" ->
             Val("list", [i \in DOMAIN value.v |-> sanitize_value(value.v[i])])
      [] OTHER -> value

sanitize_dict(data) ==
    [key \in DOMAIN data |->
        IF is_sensitive_key(key) THEN REDACTED
        ELSE IF data[key].kind = "dict"
             THEN Val("dict", sanitize_dict(data[key].v))
        ELSE IF data[key].kind = "list"
             THEN Val("list", [i \in DOMAIN data[key].v |->
                                  sanitize_value(data[key].v[i])])
        ELSE data[key]]

\* An Event object as write() holds it.
EventObject(seq, data) ==
    [type |-> "custom", timestamp |-> "now", seq |-> seq, run_id |-> "r1",
     data |-> data]

sanitize_event(event) ==
    [type |-> event.type, timestamp |-> event.timestamp, seq |-> event.seq,
     run_id |-> event.run_id, data |-> sanitize_dict(event.data)]

\* json.dumps accepts the value: str, and dict, list and tuple of values it
\* accepts; a set raises TypeError.
RECURSIVE serializable(_)
serializable(value) ==
    CASE value.kind = "str" -> TRUE
      [] value.kind = "set" -> FALSE
      [] OTHER -> \A i \in DOMAIN value.v : serializable(value.v[i])

\* What json.dumps writes for a value json.dumps accepts, as a reader of
\* the line gets it back: a tuple is written as an array, like a list.
RECURSIVE json_value(_)
json_value(value) ==
    CASE value.kind = "dict" ->
             Val("dict", [k \in DOMAIN value.v |-> json_value(value.v[k])])
      [] value.kind \in {"list", "tuple"} ->
             Val("list", [i \in DOMAIN value.v |-> json_value(value.v[i])])
      [] OTHER -> value

\* Event.to_json: the line of the file; `given` is not part of the file, it
\* records the event write() was called with, after its seq was assigned.
to_json(event, given, w) ==
    [Event(event.type, event.seq, "", w) EXCEPT !.info = "data"]
        @@ [timestamp |-> event.timestamp, run_id |-> event.run_id,
            data |-> json_value(Val("dict", event.data)).v, given |-> given]

\* EventWriter.write(event) on a sanitizing writer, by a single thread:
\* _seq is incremented and assigned, the event is sanitized and serialized,
\* and the line is appended; to_json may raise TypeError and the append may
\* raise OSError (appended = FALSE), both after the increment.
EventWrite(w, data, appended) ==
    /\ wstate[w] = "live"
    /\ wseq[w] < MaxSanSeq
    /\ \A t \in Threads : tpc[t] = "idle"
    /\ wseq' = [wseq EXCEPT ![w] = @ + 1]
    /\ LET given == EventObject(wseq[w] + 1, data)
           event == sanitize_event(given)
       IN log' = IF serializable(Val("dict", event.data)) /\ appended
                 THEN Append(log, to_json(event, given, w))
                 ELSE log
    /\ UNCHANGED <<wstate, wlock, tpc, tw, tev, onlyWriter>>

NextSan ==
    \/ \E w \in Writers : NewWriterAfterPrevious(w)
    \/ \E w \in Writers, data \in EventData, appended \in BOOLEAN :
          EventWrite(w, data, appended)

SpecSan == WriterInit /\ [][NextSan]_vars

(***************************************************************************)
(* C34  Redaction: every event persisted by a sanitizing writer has the    *)
(* value "[REDACTED]" for every data key, at any nesting depth (maps       *)
(* inside maps and maps inside lists), that equals a sensitive key case-   *)
(* insensitively, and the value it was given for every other key, the      *)
(* allow-listed token-usage keys included; type, timestamp, seq and run_id *)
(* are the ones of the event that was written.                             *)
(***************************************************************************)
\* A value as it is read back from the file, with the value of every
\* sensitive key replaced.
RECURSIVE Redacted(_)
Redacted(value) ==
    CASE value.kind = "dict" ->
             Val("dict", [k \in DOMAIN value.v |->
                             IF lower(k) \in SENSITIVE_KEYS THEN REDACTED
                             ELSE Redacted(value.v[k])])
      [] value.kind = "list" ->
             Val("list", [i \in DOMAIN value.v |-> Redacted(value.v[i])])
      [] OTHER -> value

RedactionAtAnyDepth ==
    \A p \in 1..Len(log) :
        LET line == log[p]
            given == line.given
        IN /\ line.data = Redacted(json_value(Val("dict", given.data))).v
           /\ line.type = given.type /\ line.timestamp = given.timestamp
           /\ line.seq = given.seq /\ line.run_id = given.run_id


(***************************************************************************)
(* C35  A successful run reflects only successful stages: run.completed is *)
(* appended only when, for every declared stage, the most recent outcome   *)
(* event of the log (stage.completed, stage.failed or stage.skipped) is    *)
(* stage.completed or stage.skipped; a stage whose latest execution        *)
(* failed, in this call or an earlier one, prevents run.completed.         *)
(***************************************************************************)
CompletedOnlyAfterSuccess ==
    [][(/\ Len(log') = Len(log) + 1
        /\ log'[Len(log')].type = "run.completed")
         => \A k \in 1..Len(stages) :
               LastOutcome(log, stages[k].name)
                   \in {"stage.completed", "stage.skipped"}]_vars


(***************************************************************************)
(* C36  Every started stage gets an outcome event: within one run() call   *)
(* each stage.started for stage S is followed, before any event of another *)
(* stage and before run() returns, by exactly one stage.completed or       *)
(* stage.failed for S, whatever the handler returns (completed, failed,    *)
(* skipped) and when it raises.                                            *)
(***************************************************************************)
\* The run() call numbered inv has left its stage loop.
CallEnded(inv) ==
    \A m \in Machines : mach[m].inv = inv => mach[m].pc \in {"finally", "done"}

StartedGetsOutcome ==
    \A p \in 1..Len(log) :
        (from_json_ok(log[p]) /\ log[p].type = "stage.started") =>
            LET inv == log[p].by
                S == log[p].key
                IsOutcome(q) ==
                    /\ log[q].by = inv /\ log[q].key = S
                    /\ log[q].type \in {"stage.completed", "stage.failed"}
                closing == {q \in (p + 1)..Len(log) :
                               /\ from_json_ok(log[q]) /\ log[q].by = inv
                               /\ log[q].type \in
                                      {"stage.started", "stage.skipped",
                                       "stage.completed", "stage.failed",
                                       "run.completed", "run.failed"}
                               /\ ~IsOutcome(q)}
                end == IF closing = {} THEN Len(log) + 1
                       ELSE CHOOSE q \in closing : \A u \in closing : q <= u
                outcomes == {q \in (p + 1)..(end - 1) :
                                from_json_ok(log[q]) /\ IsOutcome(q)}
            IN (closing # {} \/ CallEnded(inv)) => Cardinality(outcomes) = 1


(***************************************************************************)
(* C37  Validation errors leave the durable state unchanged: a run() call  *)
(* that raises a validation error (missing requirement on a new run, no    *)
(* requirement available on resume, unknown from_stage name) has appended  *)
(* no event to the log, and no step of a call up to its validation changes *)
(* the artifact files.                                                     *)
(***************************************************************************)
ValidationLeavesNoTrace ==
    /\ [](\A m \in Machines :
             mach[m].outcome = "ValueError" => AppendedBy(mach[m].inv) = {})
    /\ [][\A m \in Machines :
             (mach[m].pc \in {"locked", "from_stage"} /\ mach'[m] # mach[m])
                 => files' = files]_vars


(***************************************************************************)
(* C38  A failed write consumes no sequence number: a step of a writer     *)
(* that adds no line to the log (write() raised: the event data cannot be  *)
(* serialized, or the append failed) leaves the writer's sequence counter  *)
(* unchanged, so that the i-th line of the log of one writer carries       *)
(* seq = i (no gap).                                                       *)
(***************************************************************************)
FailedWriteKeepsSeq ==
    /\ [](\A i \in 1..Len(log) : log[i].seq = i)
    /\ [][(log' = log /\ wstate' = wstate) => wseq' = wseq]_vars


(***************************************************************************)
(* C39  Failure isolation without fail-fast: when schedule() returns with  *)
(* fail_fast = false, every task is completed, failed or pending; a task   *)
(* is pending exactly when some dependency of it, direct or transitive,    *)
(* failed, is absent from the graph or lies on a cycle; a task all of      *)
(* whose transitive dependencies completed was started and ended completed *)
(* or failed; no task is left running or cancelled.                        *)
(***************************************************************************)
\* The direct and transitive dependencies of task t in the plan.
TransDeps(t) ==
    LET Step(D) == D \cup UNION {plan.deps[d] : d \in D \cap TaskIds}
    IN Step(Step(Step(plan.deps[t])))

\* Dependency d can never be satisfied.
NeverSatisfied(d) ==
    \/ d \notin DOMAIN graph
    \/ graph[d].status = "failed"
    \/ d \in TransDeps(d)

FailureIsolation ==
    (sched.pc = "returned" /\ ~plan.fail_fast) =>
        \A t \in DOMAIN graph :
            /\ graph[t].status \in {"completed", "failed", "pending"}
            /\ graph[t].status = "pending"
                   <=> \E d \in TransDeps(t) : NeverSatisfied(d)
            /\ (\A d \in TransDeps(t) :
                    d \in DOMAIN graph /\ graph[d].status = "completed")
                   => /\ graph[t].status \in {"completed", "failed"}
                      /\ TaskEvents(log, "task.started", t) # {}

\* schedule() has returned without fail_fast: t1 failed after a retry, t3
\* is pending behind it and never started, t2 completed.
FailureIsolationWitness ==
    /\ sched.pc = "returned" /\ ~plan.fail_fast
    /\ graph["t1"].status = "failed" /\ graph["t1"].retry_count > 0
    /\ graph["t2"].status = "completed"
    /\ graph["t3"].status = "pending" /\ "t1" \in plan.deps["t3"]
    /\ TaskEvents(log, "task.started", "t3") = {}

=============================================================================
